---- MODULE Spec2Model ----
(***************************************************************************)
(* Team allocation (LotteryPhase), gender targets, matchup generation and  *)
(* score mutators of the party-event application.                          *)
(***************************************************************************)
EXTENDS Integers, Sequences, FiniteSets, TLC

VARIABLES
    players,            \* LotteryPhase prop: the registered roster
    tgt,                \* <<result>> of a buildGenderTargets call, <<>> before it
    unassignedPlayers,  \* LotteryPhase state
    teams,              \* LotteryPhase state: color -> member list
    phase,              \* LotteryPhase state
    currentTeamColor,   \* LotteryPhase state
    nextTeamColor,      \* LotteryPhase state
    introTeamColor,     \* LotteryPhase state
    draftQueue,         \* LotteryPhase state
    lockedPlayers,      \* LotteryPhase state
    lastTeamInfo,       \* LotteryPhase state: <<>> for null, else <<info>>
    isMuted,            \* App state, prop of LotteryPhase
    proc,               \* the running processDraft instance of the draft effect
    zombie,             \* what cancelled processDraft instances still do
    timer,              \* pending setTimeout of confirmTeam (LAST_TEAM_ASSIGN)
    toggles,            \* number of toggleMute calls so far
    lastOp,             \* the handler that ran last
    appState,           \* App state: the screen shown
    appTeams,           \* App state teams: list of Team records
    matchups,           \* App state matchups: list of rounds
    helperBucketAssignments, \* generateMatchups: helper id -> bucket, last call
    poolsByColor,       \* generateMatchups: color -> ordered pools, last call
    scoreCall,          \* the last score mutator call and the teams before it, <<>> if none
    winnerIds,          \* RaffleSystem state, kept in localStorage while it is closed
    isRolling,          \* RaffleSystem state
    rollingCandidate,   \* RaffleSystem state: <<>> for null, else <<player>>
    drawnPlayer,        \* RaffleSystem state: <<>> for null, else <<player>>
    draw,               \* the last startDraw call: <<>> or <<[finalWinner, pool, winnerIds]>>
    isEditingMatchOrder, \* ResultsPhase state, FALSE while it is not mounted
    draftMatchups,      \* ResultsPhase state, <<>> while it is not mounted
    draftTeams          \* ResultsPhase state, <<>> while it is not mounted

allocVars == <<players, unassignedPlayers, teams, phase, currentTeamColor,
               nextTeamColor, introTeamColor, draftQueue, lockedPlayers,
               lastTeamInfo, isMuted, proc, zombie, timer, toggles, lastOp>>
raffleVars == <<winnerIds, isRolling, rollingCandidate, drawnPlayer, draw>>
editVars == <<isEditingMatchOrder, draftMatchups, draftTeams>>
appVars == <<appState, appTeams, matchups, helperBucketAssignments, poolsByColor,
             scoreCall, raffleVars, editVars>>
vars == <<tgt, allocVars, appVars>>

(***************************************************************************)
(* Bounds of the model.                                                    *)
(***************************************************************************)
MaxTargetRoster == 8    \* largest roster given to buildGenderTargets
MaxRoster == 6          \* largest roster given to the lottery
MaxOther == 1           \* restricted females, and non-binary, in a lottery roster
MaxToggles == 1         \* toggleMute calls during one lottery
MaxDraftRoster == 3     \* largest roster of a lottery with toggleMute calls
MaxMatchPlayers == 3    \* most players in the teams given to generateMatchups
MaxMatchColors == 2     \* teams that have members there: the first ones
MaxRowPlayers == 4      \* largest number of players of the teams without flexible players
MaxRafflePlayers == 3   \* largest number of players of the teams given to the raffle
MaxPickRoster == 3      \* largest roster of the pickBatch calls
MaxHelperPlayers == 4   \* largest number of players of the teams of males and females
MaxTotalPlayers == 6    \* largest totalPlayers given to getHelperSlotConfig
MaxEditPlayers == 3     \* most players in the teams of the match-order edit mode
MaxEditColors == 2      \* colors whose teams have members and whose cells are used there
MaxEditRounds == 2      \* most rounds of the matchups edited there
MaxInitScore == 1       \* largest score before the first score update
MaxScore == 2           \* largest score the score updates go to
MaxDelta == 3           \* largest delta, up or down, of a score update

(***************************************************************************)
(* Data model: types.ts                                                    *)
(***************************************************************************)
NULL == "null"

TEAM_COLORS_LIST == <<"Red", "Blue", "Green", "Yellow", "Pink", "Purple">>
GENDER_KEYS == <<"M", "F", "NB">>

TeamColor == {TEAM_COLORS_LIST[i] : i \in 1..Len(TEAM_COLORS_LIST)}
Gender == {GENDER_KEYS[i] : i \in 1..Len(GENDER_KEYS)}

\* 0-based index of a color in TEAM_COLORS_LIST, as in forEach((color, idx))
ColorIdx(c) == (CHOOSE i \in 1..Len(TEAM_COLORS_LIST) : TEAM_COLORS_LIST[i] = c) - 1

\* a name is the list of the code points of its letters
NameP == <<80>>             \* "P"

Player(id, gender, flex, helper, name) ==
    [id |-> id, name |-> name, gender |-> gender, score |-> 0,
     noGenderRestriction |-> flex, isHelper |-> helper]

SeqToSet(s) == {s[i] : i \in DOMAIN s}
Ids(s) == {s[i].id : i \in DOMAIN s}

RECURSIVE SumSeq(_)
SumSeq(s) == IF s = <<>> THEN 0 ELSE Head(s) + SumSeq(Tail(s))

Min2(a, b) == IF a <= b THEN a ELSE b
Max2(a, b) == IF a >= b THEN a ELSE b

createGenderCount == [g \in Gender |-> 0]

MaxOf(S) == CHOOSE x \in S : \A y \in S : y <= x
MinOf(S) == CHOOSE x \in S : \A y \in S : x <= y

\* Object.values(TeamColor)
TeamColorValues == <<"Red", "Blue", "Green", "Yellow", "Pink", "Purple">>

Team(color, members, score) == [color |-> color, members |-> members, score |-> score]

\* initial value of App's teams when nothing is saved
InitialTeams == [i \in 1..Len(TeamColorValues) |-> Team(TeamColorValues[i], <<>>, 0)]

\* initial values of LotteryPhase state that is not a plain useState literal
EmptyTeams == [c \in TeamColor |-> <<>>]
NoProc == [pc |-> "none", idx |-> 0]
NoZombie == [locks |-> <<>>, final |-> FALSE]

(***************************************************************************)
(* ResultsPhase is rendered on the scoreboard screen only.  Its state is   *)
(* created when it is mounted, and while isEditingMatchOrder is false its  *)
(* effect on [matchups, teams, isEditingMatchOrder] copies the stored      *)
(* values into the drafts after every change.                              *)
(***************************************************************************)
cloneTeams(ts) ==
    [i \in DOMAIN ts |->
        [ts[i] EXCEPT !.members = [k \in DOMAIN ts[i].members |-> ts[i].members[k]]]]

\* the state while ResultsPhase is not rendered
ResultsPhaseUnmounted ==
    /\ isEditingMatchOrder = FALSE
    /\ draftMatchups = <<>>
    /\ draftTeams = <<>>

\* the state of ResultsPhase when it is rendered and nothing is being edited
ResultsPhaseShown ==
    /\ isEditingMatchOrder = FALSE
    /\ draftMatchups = matchups
    /\ draftTeams = cloneTeams(appTeams)

\* App leaves the scoreboard screen: the state of ResultsPhase is dropped
unmountResultsPhase ==
    /\ isEditingMatchOrder' = FALSE
    /\ draftMatchups' = <<>>
    /\ draftTeams' = <<>>

\* App shows the scoreboard screen with these stored teams and matchups
mountResultsPhase(storedTeams, storedMatchups) ==
    /\ isEditingMatchOrder' = FALSE
    /\ draftMatchups' = storedMatchups
    /\ draftTeams' = cloneTeams(storedTeams)

\* the effect after the stored teams or matchups changed
syncDrafts(storedTeams, storedMatchups) ==
    IF isEditingMatchOrder THEN UNCHANGED editVars
    ELSE /\ draftMatchups' = storedMatchups
         /\ draftTeams' = cloneTeams(storedTeams)
         /\ UNCHANGED isEditingMatchOrder

(***************************************************************************)
(* Matchup Engine: generateMatchups.  null and undefined are <<>>, a value *)
(* v that may be null is <<v>>.  A value that later steps read more than   *)
(* once is bound as x \in {e}, so {f(x) : x \in {e}} is {f(e)}.            *)
(***************************************************************************)
\* shuffleArray: any arrangement of arr
shuffleArray(arr) ==
    IF arr = <<>> THEN {<<>>}
    ELSE {[i \in 1..Len(arr) |-> arr[f[i]]] : f \in Permutations(1..Len(arr))}

\* list[0], or list.find(...) of an already filtered list
first(list) == IF list = <<>> THEN <<>> ELSE <<Head(list)>>

\* a placeholder member when the color is not found
teamMembersOrPlaceholder(currentTeams, color) ==
    LET found == {i \in DOMAIN currentTeams : currentTeams[i].color = color}
    IN  IF found = {} THEN <<Player(0, "M", FALSE, FALSE, NameP)>>
        ELSE currentTeams[MinOf(found)].members

\* currentTeams.find(t => t.color === color), then its members or []
teamMembers(currentTeams, color) ==
    LET found == {i \in DOMAIN currentTeams : currentTeams[i].color = color}
    IN  IF found = {} THEN <<>> ELSE currentTeams[MinOf(found)].members

\* the members of all teams, in the order the loop of findGame1Anchor reads them
RECURSIVE membersFrom(_, _)
membersFrom(currentTeams, i) ==
    IF i > Len(TeamColorValues) THEN <<>>
    ELSE teamMembers(currentTeams, TeamColorValues[i]) \o membersFrom(currentTeams, i + 1)

findGame1Anchor(currentTeams) ==
    first(SelectSeq(membersFrom(currentTeams, 1), LAMBDA m : m.noGenderRestriction))

toRowGenderKey(gender) ==
    IF gender = "M" THEN "male" ELSE IF gender = "F" THEN "female" ELSE "nonBinary"

game1GenderOf(game1Anchor) ==
    IF game1Anchor # <<>> THEN <<toRowGenderKey(game1Anchor[1].gender)>> ELSE <<>>

isStartGender(game1Anchor, gender) == game1Anchor # <<>> /\ game1Anchor[1].gender = gender

getHelperBaseSlotConfig(game1Anchor, gender) ==
    IF gender = "NB" THEN [earlyIndex |-> <<>>, lateIndex |-> <<>>]
    ELSE IF game1Anchor # <<>> /\ isStartGender(game1Anchor, gender)
         THEN [earlyIndex |-> <<>>, lateIndex |-> <<2>>]
         ELSE [earlyIndex |-> <<0>>, lateIndex |-> <<2>>]

\* earlyIndex of getHelperSlotConfig
earlyIndexOf(base, totalPlayers) ==
    IF totalPlayers > 0 /\ base.earlyIndex # <<>> /\ base.earlyIndex[1] < totalPlayers
    THEN base.earlyIndex ELSE <<>>

\* lateIndex = base.lateIndex, not clamped to the last index
clampLateNever(base, totalPlayers) == base.lateIndex

\* lateIndex = Math.min(base.lateIndex, totalPlayers - 1)
clampLate(base, totalPlayers) == <<Min2(base.lateIndex[1], totalPlayers - 1)>>

\* if (earlyIndex !== null && lateIndex === earlyIndex) ...
avoidEarly(start, earlyIndex, lateIndex, totalPlayers) ==
    IF earlyIndex # <<>> /\ lateIndex = earlyIndex
    THEN IF start THEN <<>>
         ELSE IF totalPlayers >= 2 THEN (IF earlyIndex = <<0>> THEN <<1>> ELSE <<0>>)
         ELSE <<>>
    ELSE lateIndex

\* if (game1Anchor && isStartGender && lateIndex === 0) lateIndex = null
avoidGame1(start, lateIndex) == IF start /\ lateIndex = <<0>> THEN <<>> ELSE lateIndex

\* lateIndex of getHelperSlotConfig
lateIndexOf(base, start, earlyIndex, totalPlayers) ==
    IF base.lateIndex # <<>> /\ totalPlayers >= 2
    THEN avoidGame1(start, avoidEarly(start, earlyIndex, clampLate(base, totalPlayers),
                                      totalPlayers))
    ELSE <<>>

\* getHelperSlotConfig from its base config
slotConfigFrom(base, start, totalPlayers) ==
    IF base.earlyIndex = <<>> /\ base.lateIndex = <<>>
    THEN [earlyIndex |-> <<>>, lateIndex |-> <<>>]
    ELSE [earlyIndex |-> earlyIndexOf(base, totalPlayers),
          lateIndex |-> lateIndexOf(base, start, earlyIndexOf(base, totalPlayers),
                                    totalPlayers)]

getHelperSlotConfig(game1Anchor, gender, totalPlayers) ==
    slotConfigFrom(getHelperBaseSlotConfig(game1Anchor, gender),
                   isStartGender(game1Anchor, gender), totalPlayers)

\* String.prototype.toUpperCase on one letter
toUpperCase(ch) == IF ch \in 97..122 THEN ch - 32 ELSE ch

\* name.trim().charAt(0).toUpperCase() || '\u0000'
firstChar(name) == IF name = <<>> THEN <<0>> ELSE <<toUpperCase(name[1])>>

\* a.localeCompare(b, undefined, { sensitivity: 'base' }) on names made of
\* letters: letter by letter, ignoring case, a prefix before the longer name
RECURSIVE localeCompare(_, _)
localeCompare(a, b) ==
    IF a = <<>> /\ b = <<>> THEN 0
    ELSE IF a = <<>> THEN -1
    ELSE IF b = <<>> THEN 1
    ELSE IF toUpperCase(a[1]) < toUpperCase(b[1]) THEN -1
    ELSE IF toUpperCase(a[1]) > toUpperCase(b[1]) THEN 1
    ELSE localeCompare(Tail(a), Tail(b))

\* the comparator of the sort in pickGame1HelperId
compareHelperInfos(a, b) ==
    IF localeCompare(firstChar(b.player.name), firstChar(a.player.name)) # 0
    THEN localeCompare(firstChar(b.player.name), firstChar(a.player.name))
    ELSE localeCompare(b.player.name, a.player.name)

\* infos[0] without the sort
pickGame1HelperIdFirst(infos) ==
    IF infos = <<>> THEN <<>> ELSE <<infos[1].player.id>>

\* [...infos].sort(...)[0]: the sort is stable, so of the infos that no other
\* info sorts before, the first one
pickGame1HelperId(infos) ==
    IF infos = <<>> THEN <<>>
    ELSE <<infos[MinOf({i \in DOMAIN infos :
                          \A j \in DOMAIN infos :
                              compareHelperInfos(infos[j], infos[i]) >= 0})].player.id>>

isAnchor(game1Anchor, player) == game1Anchor # <<>> /\ player.id = game1Anchor[1].id

\* flexible of a team: members.filter(m => m.noGenderRestriction && !isAnchor(m))
flexibleMembers(currentTeams, game1Anchor, color) ==
    SelectSeq(teamMembers(currentTeams, color),
              LAMBDA m : m.noGenderRestriction /\ ~isAnchor(game1Anchor, m))

\* malesAll / femalesAll / nonBinaryAll of a team
genderSpecificAll(currentTeams, game1Anchor, color, gender) ==
    SelectSeq(teamMembers(currentTeams, color),
              LAMBDA m : (~m.noGenderRestriction \/ isAnchor(game1Anchor, m))
                         /\ m.gender = gender)

\* what the first loop over Object.values(TeamColor) splits each team into;
\* team i is the team of color TeamColorValues[i]
teamSplit(currentTeams, game1Anchor) ==
    [i \in 1..Len(TeamColorValues) |->
        [flexible |-> flexibleMembers(currentTeams, game1Anchor, TeamColorValues[i]),
         all |-> [g \in Gender |->
                    genderSpecificAll(currentTeams, game1Anchor, TeamColorValues[i], g)]]]

\* lockedMale / lockedFemale / lockedNonBinary of team i
lockedFirstByTeamAndGender(split, game1Anchor, i, gender) ==
    first(SelectSeq(split[i].all[gender], LAMBDA p : isAnchor(game1Anchor, p)))

\* all.filter(p => p.id !== locked.id) when there is a locked player
withoutLocked(all, locked) ==
    IF locked # <<>> THEN SelectSeq(all, LAMBDA p : p.id # locked[1].id) ELSE all

\* males / females / nonBinary of pendingPools of team i
pendingPools(split, game1Anchor, i, gender) ==
    withoutLocked(split[i].all[gender],
                  lockedFirstByTeamAndGender(split, game1Anchor, i, gender))

\* the infos pushed for one team and gender
helperInfosOfTeam(all, game1Anchor, color) ==
    [k \in 1..Len(SelectSeq(all, LAMBDA p : p.isHelper /\ ~isAnchor(game1Anchor, p))) |->
        [player |-> SelectSeq(all, LAMBDA p : p.isHelper /\ ~isAnchor(game1Anchor, p))[k],
         teamColor |-> color,
         totalPlayers |-> Len(all)]]

RECURSIVE helperInfosFrom(_, _, _, _)
helperInfosFrom(split, game1Anchor, gender, i) ==
    IF i > Len(TeamColorValues) THEN <<>>
    ELSE helperInfosOfTeam(split[i].all[gender], game1Anchor, TeamColorValues[i])
         \o helperInfosFrom(split, game1Anchor, gender, i + 1)

helperInfosByGender(split, game1Anchor, gender) ==
    helperInfosFrom(split, game1Anchor, gender, 1)

\* game1HelperId
game1HelperIdOf(split, game1Anchor) ==
    IF game1Anchor # <<>>
    THEN CHOOSE id \in {pickGame1HelperId(infos) :
                          infos \in {helperInfosByGender(split, game1Anchor,
                                                         game1Anchor[1].gender)}} : TRUE
    ELSE <<>>

\* genderCountsByTeam of team i
genderCountsByTeam(split, i, gender) == Len(split[i].all[gender])

helperBucketCapacities(split, game1Anchor, gender) ==
    [early |-> Cardinality({i \in DOMAIN split :
                  getHelperSlotConfig(game1Anchor, gender,
                      genderCountsByTeam(split, i, gender)).earlyIndex # <<>>}),
     late |-> Cardinality({i \in DOMAIN split :
                  getHelperSlotConfig(game1Anchor, gender,
                      genderCountsByTeam(split, i, gender)).lateIndex # <<>>})]

\* helperBucketAssignments[id] = bucket
assignBucket(assignments, id, bucket) ==
    [x \in (DOMAIN assignments) \cup {id} |-> IF x = id THEN bucket ELSE assignments[x]]

\* the for loop over shuffledEligible without the usedLateTeams test
RECURSIVE assignLateAnyTeam(_, _, _, _, _, _)
assignLateAnyTeam(shuffledEligible, i, picked, lateTarget, usedLateTeams, assignments) ==
    IF i > Len(shuffledEligible) \/ picked >= lateTarget THEN assignments
    ELSE CHOOSE result \in
            {assignLateAnyTeam(shuffledEligible, i + 1, picked + 1, lateTarget, used, a) :
                used \in {usedLateTeams},
                a \in {assignBucket(assignments, shuffledEligible[i].player.id,
                                    "late")}} : TRUE

\* the for loop over shuffledEligible
RECURSIVE assignLate(_, _, _, _, _, _)
assignLate(shuffledEligible, i, picked, lateTarget, usedLateTeams, assignments) ==
    IF i > Len(shuffledEligible) \/ picked >= lateTarget THEN assignments
    ELSE IF shuffledEligible[i].teamColor \in usedLateTeams
         THEN assignLate(shuffledEligible, i + 1, picked, lateTarget, usedLateTeams,
                         assignments)
         ELSE CHOOSE result \in
                {assignLate(shuffledEligible, i + 1, picked + 1, lateTarget, used, a) :
                    used \in {usedLateTeams \cup {shuffledEligible[i].teamColor}},
                    a \in {assignBucket(assignments, shuffledEligible[i].player.id,
                                        "late")}} : TRUE

\* remaining.slice(0, desiredEarly).forEach(...): usedEarlyTeams is filled
\* here, after the only place that reads it
RECURSIVE assignEarly(_, _, _)
assignEarly(remaining, desiredEarly, assignments) ==
    IF desiredEarly <= 0 \/ remaining = <<>> THEN assignments
    ELSE CHOOSE result \in
            {assignEarly(rest, desiredEarly - 1, a) :
                rest \in {Tail(remaining)},
                a \in {assignBucket(assignments, Head(remaining).player.id, "early")}} : TRUE

\* lateEligible
lateEligible(game1Anchor, gender, randomized) ==
    SelectSeq(randomized, LAMBDA info :
        getHelperSlotConfig(game1Anchor, gender, info.totalPlayers).lateIndex # <<>>)

\* lateTarget without the halving for the other gender
lateTargetAll(start, infos, capacities, eligible) ==
    Min2(Len(infos), Min2(capacities.late, Len(eligible)))

\* lateTarget, of the start gender and of the other gender
lateTarget(start, infos, capacities, eligible) ==
    IF start THEN Min2(Len(infos), Min2(capacities.late, Len(eligible)))
    ELSE Min2(Len(infos) \div 2, Min2(capacities.late, Len(eligible)))

\* the assignments after the late block of assignBucketsForGender
afterLate(capacities, target, eligible, assignments) ==
    IF capacities.late > 0 /\ target > 0
    THEN {assignLate(shuffledEligible, 1, 0, target, {}, assignments) :
            shuffledEligible \in shuffleArray(eligible)}
    ELSE {assignments}

\* remaining of the early block
earlyRemaining(game1Anchor, gender, randomized, assignments) ==
    SelectSeq(randomized, LAMBDA info :
        /\ info.player.id \notin DOMAIN assignments
        /\ getHelperSlotConfig(game1Anchor, gender, info.totalPlayers).earlyIndex # <<>>)

\* the assignments after the early block; lateAssigned is lateTarget if the
\* late block ran, else 0
afterEarly(capacities, infos, target, remaining, assignments) ==
    IF capacities.early > 0
    THEN assignEarly(remaining,
                     Min2(Len(infos) - (IF capacities.late > 0 /\ target > 0 THEN target
                                        ELSE 0),
                          Min2(capacities.early, Len(remaining))),
                     assignments)
    ELSE assignments

\* assignBucketsForGender for one order of randomized
bucketsForOrder(game1Anchor, gender, assignments, infos, capacities, randomized) ==
    UNION {UNION {IF isStartGender(game1Anchor, gender)
                  THEN afterLate(capacities, target, eligible, assignments)
                  ELSE UNION {{afterEarly(capacities, infos, target, remaining, a) :
                                 remaining \in {earlyRemaining(game1Anchor, gender,
                                                               randomized, a)}} :
                              a \in afterLate(capacities, target, eligible, assignments)} :
                    target \in {lateTarget(isStartGender(game1Anchor, gender), infos,
                                           capacities, eligible)}} :
            eligible \in {lateEligible(game1Anchor, gender, randomized)}}

\* the helperBucketAssignments that assignBucketsForGender(gender) can leave
assignBucketsForGender(split, game1Anchor, game1HelperId, gender, assignments) ==
    UNION {IF infos = <<>> THEN {assignments}
           ELSE UNION {bucketsForOrder(game1Anchor, gender, assignments, infos, capacities,
                                        randomized) :
                         randomized \in shuffleArray(infos)} :
            infos \in {SelectSeq(helperInfosByGender(split, game1Anchor, gender),
                                 LAMBDA info : <<info.player.id>> # game1HelperId)},
            capacities \in {helperBucketCapacities(split, game1Anchor, gender)}}

\* assignBucketsForGender(Gender.Male); assignBucketsForGender(Gender.Female)
helperBucketAssignmentsOf(split, game1Anchor, game1HelperId) ==
    UNION {assignBucketsForGender(split, game1Anchor, game1HelperId, "F", a) :
            a \in assignBucketsForGender(split, game1Anchor, game1HelperId, "M", <<>>)}

\* the for loop of buildOrderedList followed by ordered.filter(Boolean)
RECURSIVE fillOrdered(_, _, _, _, _)
fillOrdered(idx, n, cfg, picks, remainingPool) ==
    IF idx >= n THEN <<>>
    ELSE IF picks.game1Pick # <<>> /\ idx = 0
         THEN picks.game1Pick \o fillOrdered(idx + 1, n, cfg, picks, remainingPool)
    ELSE IF cfg.earlyIndex # <<>> /\ <<idx>> = cfg.earlyIndex /\ picks.earlyPick # <<>>
         THEN picks.earlyPick \o fillOrdered(idx + 1, n, cfg, picks, remainingPool)
    ELSE IF cfg.lateIndex # <<>> /\ <<idx>> = cfg.lateIndex /\ picks.latePick # <<>>
         THEN picks.latePick \o fillOrdered(idx + 1, n, cfg, picks, remainingPool)
    ELSE IF remainingPool # <<>>
         THEN <<Head(remainingPool)>>
              \o CHOOSE result \in {fillOrdered(idx + 1, n, cfg, picks, rest) :
                                        rest \in {Tail(remainingPool)}} : TRUE
    ELSE fillOrdered(idx + 1, n, cfg, picks, remainingPool)

\* list.filter(h => h.id !== excluded?.id)
withoutPlayer(list, excluded) ==
    SelectSeq(list, LAMBDA h : excluded = <<>> \/ h.id # excluded[1].id)

\* list.filter(h => helperBucketAssignments[h.id] === bucket)
bucketed(list, assignments, bucket) ==
    SelectSeq(list, LAMBDA h : h.id \in DOMAIN assignments /\ assignments[h.id] = bucket)

\* game1Pick
game1PickOf(start, game1HelperId, helpers) ==
    IF start /\ game1HelperId # <<>>
    THEN first(SelectSeq(helpers, LAMBDA h : <<h.id>> = game1HelperId))
    ELSE <<>>

\* remainingPool
remainingPools(start, regulars, spilloverHelpers) ==
    IF start
    THEN {r \o s : r \in shuffleArray(regulars), s \in shuffleArray(spilloverHelpers)}
    ELSE shuffleArray(regulars \o spilloverHelpers)

\* buildOrderedList once helpersForBuckets and game1Pick are known
orderedWithPicks(start, assignments, cfg, shuffled, helpersForBuckets, game1Pick) ==
    UNION {UNION {{fillOrdered(0, Len(shuffled), cfg,
                               [game1Pick |-> game1Pick, earlyPick |-> earlyPick,
                                latePick |-> latePick], remainingPool) :
                     remainingPool \in
                        remainingPools(start,
                            SelectSeq(shuffled, LAMBDA p : ~p.isHelper),
                            withoutPlayer(withoutPlayer(helpersForBuckets, earlyPick),
                                          latePick))} :
                  latePick \in
                    {IF cfg.lateIndex # <<>>
                     THEN first(withoutPlayer(bucketed(helpersForBuckets, assignments, "late"),
                                              earlyPick))
                     ELSE <<>>}} :
            earlyPick \in
                {IF cfg.earlyIndex # <<>>
                 THEN first(bucketed(helpersForBuckets, assignments, "early"))
                 ELSE <<>>}}

\* buildOrderedList for one order of shuffled
orderedFrom(start, game1HelperId, assignments, cfg, shuffled) ==
    UNION {orderedWithPicks(start, assignments, cfg, shuffled,
                            withoutPlayer(SelectSeq(shuffled, LAMBDA p : p.isHelper),
                                          game1Pick),
                            game1Pick) :
            game1Pick \in {game1PickOf(start, game1HelperId,
                                       SelectSeq(shuffled, LAMBDA p : p.isHelper))}}

\* the lists that buildOrderedList(players, gender) can return
buildOrderedList(game1Anchor, game1HelperId, assignments, playerList, gender) ==
    UNION {IF list = <<>> THEN {<<>>}
           ELSE IF cfg.earlyIndex = <<>> /\ cfg.lateIndex = <<>> THEN shuffleArray(list)
           ELSE UNION {orderedFrom(isStartGender(game1Anchor, gender), game1HelperId,
                                   assignments, cfg, shuffled) :
                         shuffled \in shuffleArray(list)} :
            list \in {playerList},
            cfg \in {getHelperSlotConfig(game1Anchor, gender, Len(playerList))}}

\* the ordered list of team i and a gender, the locked player first
orderedLists(split, game1Anchor, game1HelperId, assignments, i, gender) ==
    {lockedFirstByTeamAndGender(split, game1Anchor, i, gender) \o orderedBase :
        orderedBase \in buildOrderedList(game1Anchor, game1HelperId, assignments,
                                         pendingPools(split, game1Anchor, i, gender), gender)}

\* the values poolsByColor[color] can take for team i; the flexible players
\* are shuffled for pendingPools and again for poolsByColor
teamPools(split, game1Anchor, game1HelperId, assignments, i) ==
    UNION {{[color |-> TeamColorValues[i], males |-> m, females |-> f, nonBinary |-> nb,
             flexible |-> fl] :
                m \in lists["M"], f \in lists["F"], nb \in lists["NB"],
                fl \in UNION {shuffleArray(pending) :
                                pending \in shuffleArray(split[i].flexible)}} :
            lists \in {[g \in Gender |->
                          orderedLists(split, game1Anchor, game1HelperId, assignments, i, g)]}}

\* every choice of one element from each of the sets choices[i], ..., as a list
RECURSIVE chooseEach(_, _)
chooseEach(choices, i) ==
    IF i > Len(choices) THEN {<<>>}
    ELSE {<<x>> \o rest : x \in choices[i], rest \in chooseEach(choices, i + 1)}

\* the values poolsByColor can take
poolsByColorOf(split, game1Anchor, game1HelperId, assignments) ==
    UNION {{[c \in TeamColor |-> list[ColorIdx(c) + 1]] : list \in chooseEach(choices, 1)} :
            choices \in {[i \in 1..Len(TeamColorValues) |->
                            teamPools(split, game1Anchor, game1HelperId, assignments, i)]}}

maxCounts(pools) ==
    [maxMales |-> MaxOf({0} \cup {Len(pools[c].males) : c \in TeamColor}),
     maxFemales |-> MaxOf({0} \cup {Len(pools[c].females) : c \in TeamColor}),
     maxNonBinary |-> MaxOf({0} \cup {Len(pools[c].nonBinary) : c \in TeamColor}),
     maxFlexible |-> MaxOf({0} \cup {Len(pools[c].flexible) : c \in TeamColor})]

\* genderArray of getNextPlayer
genderArray(pool, gender) ==
    IF gender = "male" THEN pool.males
    ELSE IF gender = "female" THEN pool.females
    ELSE pool.nonBinary

\* flexQueue.findIndex(p => p.gender === desiredGender), as the set of hits
matchingIndex(flexQueue, gender) ==
    {i \in DOMAIN flexQueue :
        flexQueue[i].gender = (IF gender = "male" THEN "M"
                               ELSE IF gender = "female" THEN "F" ELSE "NB")}

\* a splice that removes nothing
spliceNothing(flexQueue, index) == flexQueue

\* flexQueue.splice(index, 1)
splice(flexQueue, index) ==
    [i \in 1..(Len(flexQueue) - 1) |-> IF i < index THEN flexQueue[i] ELSE flexQueue[i + 1]]

\* getNextPlayer that never reads the gender-specific list
getNextPlayerFlexibleOnly(pool, gender, currentIndex, flexQueue) ==
    IF matchingIndex(flexQueue, gender) # {}
    THEN [player |-> <<flexQueue[MinOf(matchingIndex(flexQueue, gender))]>>,
          flexQueue |-> splice(flexQueue, MinOf(matchingIndex(flexQueue, gender)))]
    ELSE [player |-> <<>>, flexQueue |-> flexQueue]

\* getNextPlayer that fills a gap with the first flexible player of any gender
getNextPlayerAnyGender(pool, gender, currentIndex, flexQueue) ==
    IF currentIndex < Len(genderArray(pool, gender))
    THEN [player |-> <<genderArray(pool, gender)[currentIndex + 1]>>, flexQueue |-> flexQueue]
    ELSE IF flexQueue # <<>>
         THEN [player |-> <<Head(flexQueue)>>, flexQueue |-> Tail(flexQueue)]
         ELSE [player |-> <<>>, flexQueue |-> flexQueue]

\* the player getNextPlayer returns and the flexible queue it leaves
getNextPlayer(pool, gender, currentIndex, flexQueue) ==
    IF currentIndex < Len(genderArray(pool, gender))
    THEN [player |-> <<genderArray(pool, gender)[currentIndex + 1]>>, flexQueue |-> flexQueue]
    ELSE IF matchingIndex(flexQueue, gender) # {}
         THEN [player |-> <<flexQueue[MinOf(matchingIndex(flexQueue, gender))]>>,
               flexQueue |-> splice(flexQueue, MinOf(matchingIndex(flexQueue, gender)))]
         ELSE [player |-> <<>>, flexQueue |-> flexQueue]

\* getNextPlayer for each of Object.values(TeamColor)
nextPlayers(pools, gender, currentIndex, flexibleQueues) ==
    [i \in 1..Len(TeamColorValues) |->
        getNextPlayer(pools[TeamColorValues[i]], gender, currentIndex,
                      flexibleQueues[TeamColorValues[i]])]

\* a row of one gender with entries only for the teams that have a player
genderRowFilled(picked) ==
    SelectSeq([i \in 1..Len(TeamColorValues) |->
                  [color |-> TeamColorValues[i], player |-> picked[i].player]],
              LAMBDA entry : entry.player # <<>>)

\* the row of one gender: one entry pushed for each of Object.values(TeamColor)
genderRow(picked) ==
    [i \in 1..Len(TeamColorValues) |->
        [color |-> TeamColorValues[i], player |-> picked[i].player]]

\* flexibleQueues after that row
queuesAfterRow(picked) == [c \in TeamColor |-> picked[ColorIdx(c) + 1].flexQueue]

\* if (rowPlayers.some(entry => entry.player)) matchups.push(...)
pushRow(rows, rowPlayers) ==
    IF \E i \in DOMAIN rowPlayers : rowPlayers[i].player # <<>>
    THEN Append(rows, [id |-> Len(rows) + 1, players |-> rowPlayers])
    ELSE rows

\* the index of the next row of a gender
rowIndex(st, gender) ==
    IF gender = "male" THEN st.maleRowIndex
    ELSE IF gender = "female" THEN st.femaleRowIndex
    ELSE st.nonBinaryRowIndex

\* one row of the given gender: the indices, the queues and the rows after it
emitRow(pools, st, gender) ==
    CHOOSE result \in
        {[maleRowIndex |-> st.maleRowIndex + (IF gender = "male" THEN 1 ELSE 0),
          femaleRowIndex |-> st.femaleRowIndex + (IF gender = "female" THEN 1 ELSE 0),
          nonBinaryRowIndex |-> st.nonBinaryRowIndex + (IF gender = "nonBinary" THEN 1 ELSE 0),
          preferMale |-> st.preferMale,
          flexibleQueues |-> queuesAfterRow(picked),
          rows |-> pushRow(st.rows, genderRow(picked))] :
            picked \in {nextPlayers(pools, gender, rowIndex(st, gender),
                                    st.flexibleQueues)}} : TRUE

\* the branch taken when preferMale is never toggled
nextRowNoToggle(st, max) ==
    IF st.preferMale /\ st.maleRowIndex < max.maxMales
    THEN [gender |-> "male", preferMale |-> st.preferMale]
    ELSE IF st.femaleRowIndex < max.maxFemales
    THEN [gender |-> "female", preferMale |-> st.preferMale]
    ELSE [gender |-> "nonBinary", preferMale |-> st.preferMale]

\* the branch the while loop takes: the gender of the row and preferMale after it
nextRow(st, max) ==
    IF st.preferMale /\ st.maleRowIndex < max.maxMales
    THEN [gender |-> "male", preferMale |-> FALSE]
    ELSE IF ~st.preferMale /\ st.femaleRowIndex < max.maxFemales
    THEN [gender |-> "female", preferMale |-> TRUE]
    ELSE IF st.maleRowIndex < max.maxMales
    THEN [gender |-> "male", preferMale |-> st.preferMale]
    ELSE IF st.femaleRowIndex < max.maxFemales
    THEN [gender |-> "female", preferMale |-> st.preferMale]
    ELSE [gender |-> "nonBinary", preferMale |-> st.preferMale]

\* the while loop over the male, female and non-binary rows
RECURSIVE genderRows(_, _, _)
genderRows(pools, max, st) ==
    IF ~(\/ st.maleRowIndex < max.maxMales
         \/ st.femaleRowIndex < max.maxFemales
         \/ st.nonBinaryRowIndex < max.maxNonBinary)
    THEN st
    ELSE CHOOSE result \in
            {genderRows(pools, max, s) :
                s \in {[emitRow(pools, st, nextRow(st, max).gender)
                            EXCEPT !.preferMale = nextRow(st, max).preferMale]}} : TRUE

\* one leftover row: flexQueue.shift() || null for each of Object.values(TeamColor)
flexibleRow(flexibleQueues) ==
    [i \in 1..Len(TeamColorValues) |->
        [color |-> TeamColorValues[i],
         player |-> first(flexibleQueues[TeamColorValues[i]])]]

\* the while (hasRemainingFlexible) loop
RECURSIVE flexibleRows(_, _)
flexibleRows(flexibleQueues, rows) ==
    IF \A c \in TeamColor : flexibleQueues[c] = <<>> THEN rows
    ELSE CHOOSE result \in
            {flexibleRows(q, r) :
                q \in {[c \in TeamColor |->
                          IF flexibleQueues[c] # <<>> THEN Tail(flexibleQueues[c])
                          ELSE <<>>]},
                r \in {pushRow(rows, flexibleRow(flexibleQueues))}} : TRUE

\* numbering from 0
renumberZeroBased(rows) == [i \in DOMAIN rows |-> [rows[i] EXCEPT !.id = i - 1]]

\* matchups.map((row, idx) => ({ ...row, id: idx + 1 }))
renumber(rows) == [i \in DOMAIN rows |-> [rows[i] EXCEPT !.id = i]]

\* no row at all
emptyMatchupsNone == <<>>

\* the single row returned when no row was pushed
emptyMatchups ==
    <<[id |-> 1,
       players |-> [i \in 1..Len(TeamColorValues) |->
                       [color |-> TeamColorValues[i], player |-> <<>>]]]>>

\* the state before the first row with the male row always preferred
firstRowStateMaleFirst(pools, game1Gender) ==
    [maleRowIndex |-> 0, femaleRowIndex |-> 0, nonBinaryRowIndex |-> 0,
     preferMale |-> TRUE,
     flexibleQueues |-> [c \in TeamColor |-> pools[c].flexible],
     rows |-> <<>>]

\* the state before the first row
firstRowState(pools, game1Gender) ==
    [maleRowIndex |-> 0, femaleRowIndex |-> 0, nonBinaryRowIndex |-> 0,
     preferMale |-> IF game1Gender # <<>> THEN game1Gender = <<"male">> ELSE TRUE,
     flexibleQueues |-> [c \in TeamColor |-> pools[c].flexible],
     rows |-> <<>>]

\* the non-binary row that opens the list when the anchor is non-binary
nonBinaryFirst(pools, max, game1Gender, st) ==
    IF game1Gender = <<"nonBinary">> /\ st.nonBinaryRowIndex < max.maxNonBinary
    THEN emitRow(pools, st, "nonBinary") ELSE st

\* the rows emitted for given poolsByColor: from maxCounts to the return
emitMatchups(pools, game1Gender) ==
    CHOOSE result \in
        {IF Len(rows) = 0 THEN emptyMatchups ELSE renumber(rows) :
            rows \in {flexibleRows(st.flexibleQueues, st.rows) :
                        st \in {genderRows(pools, max, opened) :
                                  max \in {maxCounts(pools)},
                                  opened \in {nonBinaryFirst(pools, maxCounts(pools), game1Gender,
                                                firstRowState(pools, game1Gender))}}}} : TRUE

\* the runs of generateMatchups once the teams are split
matchupRuns(split, game1Anchor, game1HelperId) ==
    UNION {{[helperBucketAssignments |-> a, poolsByColor |-> pools,
             matchups |-> emitMatchups(pools, game1GenderOf(game1Anchor))] :
                pools \in poolsByColorOf(split, game1Anchor, game1HelperId, a)} :
            a \in helperBucketAssignmentsOf(split, game1Anchor, game1HelperId)}

\* the runs of generateMatchups for a given anchor
matchupRunsWith(currentTeams, game1Anchor) ==
    UNION {matchupRuns(split, game1Anchor, game1HelperId) :
            split \in {teamSplit(currentTeams, game1Anchor)},
            game1HelperId \in {game1HelperIdOf(teamSplit(currentTeams, game1Anchor),
                                               game1Anchor)}}

\* every run of generateMatchups(currentTeams): the bucket assignments and
\* pools it computed and the list it returns
generateMatchups(currentTeams) ==
    UNION {matchupRunsWith(currentTeams, game1Anchor) :
            game1Anchor \in {findGame1Anchor(currentTeams)}}

\* the teams list as if the flexible queues were the members arrays
\* themselves: the flexible players are spliced and shifted out of them
teamsAfterRunDrained(currentTeams, run) ==
    [i \in DOMAIN currentTeams |->
        [currentTeams[i] EXCEPT
            !.members = SelectSeq(currentTeams[i].members,
                                  LAMBDA m : ~m.noGenderRestriction)]]

\* the teams list after a run of generateMatchups(currentTeams): members is
\* a copy ([...team.members]), filter and shuffleArray return new arrays,
\* flexibleQueues holds copies, and no statement writes to a team or a player
teamsAfterRun(currentTeams, run) == currentTeams

\* setMatchups(generateMatchups(ts)), ts being the list that teams holds
setGeneratedMatchups(ts) ==
    \E run \in generateMatchups(ts) :
        /\ matchups' = run.matchups
        /\ helperBucketAssignments' = run.helperBucketAssignments
        /\ poolsByColor' = run.poolsByColor
        /\ appTeams' = teamsAfterRun(ts, run)

\* setTeams(finalTeams), then generateMatchups(finalTeams) on that same list
completeLottery(finalTeams) ==
    /\ \E ts \in {finalTeams} : setGeneratedMatchups(ts)
    /\ appState' = "MATCHUPS"
    /\ UNCHANGED <<scoreCall, raffleVars, editVars>>

handleViewMatchups ==
    /\ appState = "RESULTS"
    /\ IF Len(matchups) > 0
       THEN UNCHANGED <<appTeams, matchups, helperBucketAssignments, poolsByColor>>
       ELSE setGeneratedMatchups(appTeams)
    /\ appState' = "MATCHUPS"
    /\ unmountResultsPhase
    /\ UNCHANGED <<scoreCall, raffleVars, tgt, allocVars>>

handleProceedToScoreboard ==
    /\ appState = "MATCHUPS"
    /\ appState' = "RESULTS"
    /\ mountResultsPhase(appTeams, matchups)
    /\ UNCHANGED <<appTeams, matchups, helperBucketAssignments, poolsByColor, scoreCall,
                   raffleVars, tgt, allocVars>>

(***************************************************************************)
(* Raffle: the state of RaffleSystem while it is not shown, no winner      *)
(* stored.                                                                 *)
(***************************************************************************)
RaffleClosed ==
    /\ winnerIds = <<>>
    /\ isRolling = FALSE
    /\ rollingCandidate = <<>>
    /\ drawnPlayer = <<>>
    /\ draw = <<>>

(***************************************************************************)
(* Score handling                                                          *)
(***************************************************************************)
\* updateTeamScore without the floor
updateTeamScoreUnclamped(prev, teamColor, delta) ==
    [i \in DOMAIN prev |->
        IF prev[i].color = teamColor
        THEN [prev[i] EXCEPT !.score = prev[i].score + delta]
        ELSE prev[i]]

\* the updater updateTeamScore passes to setTeams
updateTeamScoreOf(prev, teamColor, delta) ==
    [i \in DOMAIN prev |->
        IF prev[i].color = teamColor
        THEN [prev[i] EXCEPT !.score = Max2(0, prev[i].score + delta)]
        ELSE prev[i]]

\* newMembers without the floor of the player's score
newMembersUnclamped(members, playerId, delta) ==
    [k \in DOMAIN members |->
        IF members[k].id = playerId
        THEN [members[k] EXCEPT !.score = members[k].score + delta]
        ELSE members[k]]

\* newMembers of updatePlayerScore
newMembersOf(members, playerId, delta) ==
    [k \in DOMAIN members |->
        IF members[k].id = playerId
        THEN [members[k] EXCEPT !.score = Max2(0, members[k].score + delta)]
        ELSE members[k]]

\* teamDelta as the requested delta
teamDeltaRequested(members, playerId, delta) ==
    IF \E k \in DOMAIN members : members[k].id = playerId THEN delta ELSE 0

\* teamDelta of updatePlayerScore: set by every member with that id, the
\* last one stays
teamDeltaOf(members, playerId, delta) ==
    LET found == {k \in DOMAIN members : members[k].id = playerId}
    IN  IF found = {} THEN 0
        ELSE Max2(0, members[MaxOf(found)].score + delta) - members[MaxOf(found)].score

\* the updater updatePlayerScore passes to setTeams
updatePlayerScoreOf(prev, teamColor, playerId, delta) ==
    [i \in DOMAIN prev |->
        IF prev[i].color = teamColor
        THEN [prev[i] EXCEPT
                !.members = newMembersOf(prev[i].members, playerId, delta),
                !.score = Max2(0, prev[i].score
                                  + teamDeltaOf(prev[i].members, playerId, delta))]
        ELSE prev[i]]

(***************************************************************************)
(* Rosters: n players with ids 1..n; the kinds (gender, flexible flag) are  *)
(* drawn freely, players of one kind are listed together.                   *)
(***************************************************************************)
Kinds == <<[gender |-> "M", flex |-> FALSE], [gender |-> "F", flex |-> FALSE],
           [gender |-> "NB", flex |-> FALSE], [gender |-> "M", flex |-> TRUE],
           [gender |-> "F", flex |-> TRUE], [gender |-> "NB", flex |-> TRUE]>>

RECURSIVE KindSeq(_, _)
KindSeq(cnt, k) ==
    IF k > Len(Kinds) THEN <<>>
    ELSE [i \in 1..cnt[k] |-> k] \o KindSeq(cnt, k + 1)

RosterOf(cnt) ==
    LET ks == KindSeq(cnt, 1)
    IN  [i \in 1..Len(ks) |->
            Player(i, Kinds[ks[i]].gender, Kinds[ks[i]].flex, FALSE, NameP)]

Rosters(max) ==
    {RosterOf(<<a, b, c, d, e, f>>) :
        <<a, b, c, d, e, f>> \in
            {t \in (0..max) \X (0..max) \X (0..max) \X (0..max) \X (0..max) \X (0..max) :
                t[1] + t[2] + t[3] + t[4] + t[5] + t[6] <= max}}

\* Rosters of the lottery: any number of restricted males and of flexible
\* players (whose genders take turns), few restricted females and non-binary
LotteryRosters(max, other) ==
    {RosterOf(<<t[1], t[2], t[3], (t[4] + 2) \div 3, (t[4] + 1) \div 3, t[4] \div 3>>) :
        t \in {u \in (0..max) \X (0..other) \X (0..other) \X (0..max) :
                u[1] + u[2] + u[3] + u[4] <= max}}

(***************************************************************************)
(* Gender Target Calculator: buildGenderTargets                            *)
(***************************************************************************)
CountWhere(s, P(_)) == Cardinality({i \in DOMAIN s : P(s[i])})

\* a slip that would count flexible players as well
buildGenderTargetsAll(ps) ==
    LET genderTotals == [g \in Gender |-> CountWhere(ps, LAMBDA p : p.gender = g)]
        colorCount == Len(TEAM_COLORS_LIST)
    IN  [color \in TeamColor |-> [gender \in Gender |->
            IF genderTotals[gender] = 0 THEN 0
            ELSE (genderTotals[gender] \div colorCount)
                 + (IF ColorIdx(color) < genderTotals[gender] % colorCount THEN 1 ELSE 0)]]

\* a slip that would hand the extra slot to one team too many
buildGenderTargetsOffByOne(ps) ==
    LET genderRestrictedPlayers == SelectSeq(ps, LAMBDA p : ~p.noGenderRestriction)
        genderTotals == [g \in Gender |->
            CountWhere(genderRestrictedPlayers, LAMBDA p : p.gender = g)]
        colorCount == Len(TEAM_COLORS_LIST)
    IN  [color \in TeamColor |-> [gender \in Gender |->
            IF genderTotals[gender] = 0 THEN 0
            ELSE (genderTotals[gender] \div colorCount)
                 + (IF ColorIdx(color) <= genderTotals[gender] % colorCount THEN 1 ELSE 0)]]

buildGenderTargets(ps) ==
    LET genderRestrictedPlayers == SelectSeq(ps, LAMBDA p : ~p.noGenderRestriction)
        genderTotals == [g \in Gender |->
            CountWhere(genderRestrictedPlayers, LAMBDA p : p.gender = g)]
        colorCount == Len(TEAM_COLORS_LIST)
    IN  [color \in TeamColor |-> [gender \in Gender |->
            IF genderTotals[gender] = 0 THEN 0
            ELSE LET base == genderTotals[gender] \div colorCount
                     remainder == genderTotals[gender] % colorCount
                 IN  base + (IF ColorIdx(color) < remainder THEN 1 ELSE 0)]]

(***************************************************************************)
(* Team Allocation Engine: LotteryPhase                                    *)
(***************************************************************************)
genderTargets == buildGenderTargets(players)

\* shufflePlayers(arr).slice(0, n): n distinct elements of arr in any order
\* (all of arr when n exceeds its length)
ShuffledSlice(arr, n) ==
    LET k == Min2(n, Len(arr))
    IN  {[i \in 1..k |-> arr[f[i]]] :
            f \in {g \in [1..k -> DOMAIN arr] : \A i, j \in 1..k : i # j => g[i] # g[j]}}

genderBasedSize(color) == SumSeq([i \in 1..Len(GENDER_KEYS) |-> genderTargets[color][GENDER_KEYS[i]]])

assignedCounts(assignedMembers) ==
    [g \in Gender |->
        CountWhere(assignedMembers, LAMBDA m : ~m.noGenderRestriction /\ m.gender = g)]

neededCounts(color, snapshotTeams) ==
    [g \in Gender |->
        Max2(genderTargets[color][g] - assignedCounts(snapshotTeams[color])[g], 0)]

\* picks for a gender slot that take flexible players of that gender too
genderPicksWithFlexible(pool, gender, needed, usedIds) ==
    IF needed <= 0 THEN {<<>>}
    ELSE ShuffledSlice(SelectSeq(pool, LAMBDA p : p.gender = gender /\ p.id \notin usedIds),
                       needed)

\* the picks for one gender slot: non-flexible players of that gender only
genderPicks(pool, gender, needed, usedIds) ==
    IF needed <= 0 THEN {<<>>}
    ELSE ShuffledSlice(
            SelectSeq(pool, LAMBDA p : p.gender = gender /\ p.id \notin usedIds
                                       /\ ~p.noGenderRestriction),
            needed)

maxGenderBasedSize ==
    MaxOf({genderBasedSize(TEAM_COLORS_LIST[i]) : i \in 1..Len(TEAM_COLORS_LIST)})

thisTeamShortage(color) == maxGenderBasedSize - genderBasedSize(color)

\* every flexible player of the pool, whatever the shortage
flexiblePicksAll(pool, color, usedIds) ==
    shuffleArray(SelectSeq(pool, LAMBDA p : p.noGenderRestriction /\ p.id \notin usedIds))

flexiblePicks(pool, color, usedIds) ==
    LET flexibleInPool == SelectSeq(pool, LAMBDA p : p.noGenderRestriction /\ p.id \notin usedIds)
    IN  IF thisTeamShortage(color) > 0 /\ Len(flexibleInPool) > 0
        THEN ShuffledSlice(flexibleInPool, Min2(thisTeamShortage(color), Len(flexibleInPool)))
        ELSE {<<>>}

\* the batches pickBatch can return
pickBatch(pool, color, snapshotTeams) ==
    LET needed == neededCounts(color, snapshotTeams)
    IN  UNION {UNION {UNION {
            {pm \o pf \o pnb \o pfl :
                pfl \in flexiblePicks(pool, color, Ids(pm) \cup Ids(pf) \cup Ids(pnb))} :
            pnb \in genderPicks(pool, "NB", needed["NB"], Ids(pm) \cup Ids(pf))} :
            pf \in genderPicks(pool, "F", needed["F"], Ids(pm))} :
            pm \in genderPicks(pool, "M", needed["M"], {})}

\* teamQueue.filter(c => teams.find(t => t.color === c)?.members.length === 0)
remainingColorsOf(ts) == SelectSeq(TEAM_COLORS_LIST, LAMBDA c : Len(ts[c]) = 0)

WithoutIds(pool, ids) == SelectSeq(pool, LAMBDA p : p.id \notin ids)

\* the draft effect starts a processDraft instance when it sees DRAFTING
\* with a non-empty queue
EffectFor(ph, queue) ==
    IF ph = "DRAFTING" /\ Len(queue) > 0 THEN [pc |-> "wait", idx |-> 0] ELSE NoProc

\* the shared tail of startNextTeam and initiateNextTeam for color c
BeginTeam(c) ==
    /\ currentTeamColor' = c
    /\ IF Len(remainingColorsOf(teams)) = 1
       THEN /\ draftQueue' = unassignedPlayers
            /\ lockedPlayers' = unassignedPlayers
            /\ unassignedPlayers' = <<>>
            /\ phase' = "SUMMARY"
            /\ proc' = NoProc
       ELSE \E winners \in pickBatch(unassignedPlayers, c, teams) :
            /\ draftQueue' = winners
            /\ lockedPlayers' = <<>>
            /\ phase' = IF Len(winners) = 0 THEN "SUMMARY" ELSE "DRAFTING"
            /\ proc' = EffectFor(phase', winners)
            /\ UNCHANGED unassignedPlayers

startNextTeam ==
    /\ phase = "IDLE"
    /\ Len(unassignedPlayers) > 0
    /\ lastOp' = "startNextTeam"
    /\ LET rem == remainingColorsOf(teams)
       IN  IF Len(rem) = 0
           THEN /\ phase' = "DONE"
                /\ UNCHANGED <<unassignedPlayers, currentTeamColor, introTeamColor,
                               draftQueue, lockedPlayers, proc>>
           ELSE IF \A c \in TeamColor : Len(teams[c]) = 0
           THEN /\ introTeamColor' = rem[1]
                /\ phase' = "FIRST_TEAM_INTRO"
                /\ UNCHANGED <<unassignedPlayers, currentTeamColor, draftQueue,
                               lockedPlayers, proc>>
           ELSE /\ BeginTeam(rem[1])
                /\ UNCHANGED introTeamColor
    /\ UNCHANGED <<appVars, players, tgt, teams, nextTeamColor, lastTeamInfo, isMuted, zombie,
                   timer, toggles>>

\* the timer of the FIRST_TEAM_INTRO effect
introTimer ==
    /\ phase = "FIRST_TEAM_INTRO"
    /\ introTeamColor # NULL
    /\ lastOp' = "introTimer"
    /\ currentTeamColor' = introTeamColor
    /\ \E winners \in pickBatch(unassignedPlayers, introTeamColor, teams) :
        /\ draftQueue' = winners
        /\ lockedPlayers' = <<>>
        /\ introTeamColor' = IF Len(winners) = 0 THEN introTeamColor ELSE NULL
        /\ phase' = IF Len(winners) = 0 THEN "SUMMARY" ELSE "DRAFTING"
        /\ proc' = EffectFor(phase', winners)
    /\ UNCHANGED <<appVars, players, tgt, unassignedPlayers, teams, nextTeamColor, lastTeamInfo,
                   isMuted, zombie, timer, toggles>>

(***************************************************************************)
(* The draft effect: processDraft locks the queue's players one by one.    *)
(* proc is the instance of the current effect run; pc "wait" is the initial *)
(* roll, "loop" the top of the while loop (also the delay after a lock),    *)
(* "suspense" the pause before one of the last two locks, "final" the pause *)
(* before SUMMARY.  A cancelled instance only finishes what it had begun    *)
(* after its last isCancelled test: the lock that follows its suspense      *)
(* pause, or the SUMMARY that follows its final pause.  Those pauses last   *)
(* at most 1.5 s and 0.3 s, the initial roll of the next instance at least  *)
(* 0.8 s and its way to a suspense or final pause more than 1.5 s.          *)
(***************************************************************************)
processDraftRollEnd ==
    /\ phase = "DRAFTING"
    /\ proc.pc = "wait"
    /\ ~zombie.final
    /\ proc' = [proc EXCEPT !.pc = "loop"]
    /\ lastOp' = "processDraft"
    /\ UNCHANGED <<appVars, players, tgt, unassignedPlayers, teams, phase, currentTeamColor,
                   nextTeamColor, introTeamColor, draftQueue, lockedPlayers,
                   lastTeamInfo, isMuted, zombie, timer, toggles>>

processDraftLoop ==
    /\ phase = "DRAFTING"
    /\ proc.pc = "loop"
    /\ lastOp' = "processDraft"
    /\ LET totalNeeded == Len(draftQueue)
           remainingAfterThis == totalNeeded - proc.idx
       IN  IF proc.idx < totalNeeded
           THEN IF remainingAfterThis <= 2 /\ totalNeeded > 2
                THEN /\ zombie.locks = <<>>
                     /\ proc' = [proc EXCEPT !.pc = "suspense"]
                     /\ UNCHANGED lockedPlayers
                ELSE /\ lockedPlayers' = Append(lockedPlayers, draftQueue[proc.idx + 1])
                     /\ proc' = [proc EXCEPT !.idx = proc.idx + 1]
           ELSE /\ zombie.locks = <<>>
                /\ proc' = [proc EXCEPT !.pc = "final"]
                /\ UNCHANGED lockedPlayers
    /\ UNCHANGED <<appVars, players, tgt, unassignedPlayers, teams, phase, currentTeamColor,
                   nextTeamColor, introTeamColor, draftQueue, lastTeamInfo, isMuted,
                   zombie, timer, toggles>>

processDraftSuspenseLock ==
    /\ phase = "DRAFTING"
    /\ proc.pc = "suspense"
    /\ lastOp' = "processDraft"
    /\ lockedPlayers' = Append(lockedPlayers, draftQueue[proc.idx + 1])
    /\ proc' = [pc |-> "loop", idx |-> proc.idx + 1]
    /\ UNCHANGED <<appVars, players, tgt, unassignedPlayers, teams, phase, currentTeamColor,
                   nextTeamColor, introTeamColor, draftQueue, lastTeamInfo, isMuted,
                   zombie, timer, toggles>>

\* setPhase('SUMMARY') and the removal of the batch from the pool
DraftToSummary ==
    /\ phase' = "SUMMARY"
    /\ unassignedPlayers' = WithoutIds(unassignedPlayers, Ids(draftQueue))
    /\ proc' = NoProc

processDraftFinal ==
    /\ phase = "DRAFTING"
    /\ proc.pc = "final"
    /\ lastOp' = "processDraft"
    /\ DraftToSummary
    /\ UNCHANGED <<appVars, players, tgt, teams, currentTeamColor, nextTeamColor, introTeamColor,
                   draftQueue, lockedPlayers, lastTeamInfo, isMuted, zombie, timer,
                   toggles>>

\* a cancelled instance locks the winner it was pausing for
cancelledLock ==
    /\ phase = "DRAFTING"
    /\ zombie.locks # <<>>
    /\ lastOp' = "processDraft"
    /\ \E i \in DOMAIN zombie.locks :
        /\ lockedPlayers' = Append(lockedPlayers, zombie.locks[i])
        /\ zombie' = [zombie EXCEPT !.locks =
                        [j \in 1..(Len(zombie.locks) - 1) |->
                            IF j < i THEN zombie.locks[j] ELSE zombie.locks[j + 1]]]
    /\ UNCHANGED <<appVars, players, tgt, unassignedPlayers, teams, phase, currentTeamColor,
                   nextTeamColor, introTeamColor, draftQueue, lastTeamInfo, isMuted,
                   proc, timer, toggles>>

\* a cancelled instance ends its final pause
cancelledFinal ==
    /\ phase = "DRAFTING"
    /\ zombie.final
    /\ lastOp' = "processDraft"
    /\ DraftToSummary
    /\ zombie' = [zombie EXCEPT !.final = FALSE]
    /\ UNCHANGED <<appVars, players, tgt, teams, currentTeamColor, nextTeamColor, introTeamColor,
                   draftQueue, lockedPlayers, lastTeamInfo, isMuted, timer, toggles>>

\* App.toggleMute: isMuted is a dependency of the draft effect, so a running
\* effect is cleaned up (isCancelled = true) and run again
toggleMute ==
    /\ phase \in {"IDLE", "DRAFTING"}
    /\ toggles < MaxToggles
    /\ toggles' = toggles + 1
    /\ isMuted' = ~isMuted
    /\ lastOp' = "toggleMute"
    /\ IF phase = "DRAFTING" /\ Len(draftQueue) > 0
       THEN /\ zombie' = [locks |-> IF proc.pc = "suspense"
                                    THEN Append(zombie.locks, draftQueue[proc.idx + 1])
                                    ELSE zombie.locks,
                          final |-> zombie.final \/ proc.pc = "final"]
            /\ proc' = [pc |-> "wait", idx |-> 0]
       ELSE UNCHANGED <<zombie, proc>>
    /\ UNCHANGED <<appVars, players, tgt, unassignedPlayers, teams, phase, currentTeamColor,
                   nextTeamColor, introTeamColor, draftQueue, lockedPlayers,
                   lastTeamInfo, timer>>

(***************************************************************************)
(* The handlers that close a team                                          *)
(***************************************************************************)
\* what the last remaining team receives in confirmTeam: [...unassignedPlayers]
lastTeamMembers(pool, color, ts) == {pool}

confirmTeam ==
    /\ phase = "SUMMARY"
    /\ currentTeamColor # NULL
    /\ lastOp' = "confirmTeam"
    /\ LET newTeams == [teams EXCEPT ![currentTeamColor] = lockedPlayers]
           remainingColors == remainingColorsOf(newTeams)
       IN  IF Len(unassignedPlayers) = 0
           THEN /\ teams' = newTeams
                /\ phase' = "FINAL_RECAP"
                /\ UNCHANGED <<unassignedPlayers, currentTeamColor, nextTeamColor,
                               lockedPlayers, lastTeamInfo, timer>>
           ELSE IF Len(remainingColors) = 1
           THEN \E remainingPlayers \in
                    lastTeamMembers(unassignedPlayers, remainingColors[1], newTeams) :
                /\ teams' = [newTeams EXCEPT ![remainingColors[1]] = remainingPlayers]
                /\ unassignedPlayers' = <<>>
                /\ lastTeamInfo' = <<[color |-> remainingColors[1],
                                      members |-> remainingPlayers]>>
                /\ lockedPlayers' = remainingPlayers
                /\ phase' = "IDLE"
                /\ timer' = TRUE
                /\ UNCHANGED <<currentTeamColor, nextTeamColor>>
           ELSE IF Len(remainingColors) > 1
           THEN /\ teams' = newTeams
                /\ nextTeamColor' = remainingColors[1]
                /\ currentTeamColor' = NULL
                /\ lockedPlayers' = <<>>
                /\ phase' = "NEXT_TEAM_PREVIEW"
                /\ UNCHANGED <<unassignedPlayers, lastTeamInfo, timer>>
           ELSE /\ teams' = newTeams
                /\ currentTeamColor' = NULL
                /\ lockedPlayers' = <<>>
                /\ phase' = "IDLE"
                /\ UNCHANGED <<unassignedPlayers, nextTeamColor, lastTeamInfo, timer>>
    /\ UNCHANGED <<appVars, players, tgt, introTeamColor, draftQueue, isMuted, proc, zombie,
                   toggles>>

\* the setTimeout of confirmTeam's last-team branch
lastTeamTimer ==
    /\ timer
    /\ timer' = FALSE
    /\ phase' = "LAST_TEAM_ASSIGN"
    /\ lastOp' = "lastTeamTimer"
    /\ UNCHANGED <<appVars, players, tgt, unassignedPlayers, teams, currentTeamColor,
                   nextTeamColor, introTeamColor, draftQueue, lockedPlayers,
                   lastTeamInfo, isMuted, proc, zombie, toggles>>

\* the VIEW ALL TEAMS button of the LAST_TEAM_ASSIGN screen
viewAllTeams ==
    /\ phase = "LAST_TEAM_ASSIGN"
    /\ lastTeamInfo # <<>>
    /\ currentTeamColor # NULL
    /\ lastTeamInfo' = <<>>
    /\ currentTeamColor' = NULL
    /\ phase' = "FINAL_RECAP"
    /\ lastOp' = "viewAllTeams"
    /\ UNCHANGED <<appVars, players, tgt, unassignedPlayers, teams, nextTeamColor,
                   introTeamColor, draftQueue, lockedPlayers, isMuted, proc, zombie,
                   timer, toggles>>

initiateNextTeam ==
    /\ phase = "NEXT_TEAM_PREVIEW"
    /\ nextTeamColor # NULL
    /\ lastOp' = "initiateNextTeam"
    /\ nextTeamColor' = NULL
    /\ BeginTeam(nextTeamColor)
    /\ UNCHANGED <<appVars, players, tgt, teams, introTeamColor, lastTeamInfo, isMuted, zombie,
                   timer, toggles>>

\* the Skip Team button of the NEXT_TEAM_PREVIEW screen
skipTeam ==
    /\ phase = "NEXT_TEAM_PREVIEW"
    /\ nextTeamColor # NULL
    /\ lastOp' = "skipTeam"
    /\ \E winners \in pickBatch(unassignedPlayers, nextTeamColor, teams) :
        LET newTeams == [teams EXCEPT ![nextTeamColor] = winners]
            remaining == WithoutIds(unassignedPlayers, Ids(winners))
            remainingColors == remainingColorsOf(newTeams)
        IN  IF Len(remaining) = 0 \/ Len(remainingColors) = 0
            THEN /\ teams' = newTeams
                 /\ unassignedPlayers' = remaining
                 /\ nextTeamColor' = NULL
                 /\ phase' = "FINAL_RECAP"
            ELSE IF Len(remainingColors) = 1
            THEN /\ teams' = [newTeams EXCEPT ![remainingColors[1]] = remaining]
                 /\ unassignedPlayers' = <<>>
                 /\ nextTeamColor' = NULL
                 /\ phase' = "FINAL_RECAP"
            ELSE /\ teams' = newTeams
                 /\ unassignedPlayers' = remaining
                 /\ nextTeamColor' = remainingColors[1]
                 /\ UNCHANGED phase
    /\ UNCHANGED <<appVars, players, tgt, currentTeamColor, introTeamColor, draftQueue,
                   lockedPlayers, lastTeamInfo, isMuted, proc, zombie, timer, toggles>>

\* a slip that would draft the last team like the others
quickFinishWinnersNoLast(isLast, currentPool, color, currentTeams) ==
    pickBatch(currentPool, color, currentTeams)

\* isLast ? currentPool : pickBatch(currentPool, color, currentTeams)
quickFinishWinners(isLast, currentPool, color, currentTeams) ==
    IF isLast THEN {currentPool} ELSE pickBatch(currentPool, color, currentTeams)

\* the teams the forEach of quickFinish can leave, from its index-th color on
RECURSIVE quickFinishFrom(_, _, _, _)
quickFinishFrom(currentPool, currentTeams, remainingColors, index) ==
    IF index > Len(remainingColors) THEN {currentTeams}
    ELSE LET color == remainingColors[index]
         IN  UNION {quickFinishFrom(WithoutIds(currentPool, Ids(winners)),
                                    [currentTeams EXCEPT ![color] = winners],
                                    remainingColors, index + 1) :
                    winners \in quickFinishWinners(index = Len(remainingColors),
                                                   currentPool, color, currentTeams)}

\* the AUTO button, offered next to START while more than 5 players wait
quickFinish ==
    /\ phase = "IDLE"
    /\ Len(unassignedPlayers) > 5
    /\ lastOp' = "quickFinish"
    /\ teams' \in quickFinishFrom(unassignedPlayers, teams, remainingColorsOf(teams), 1)
    /\ unassignedPlayers' = <<>>
    /\ phase' = "FINAL_RECAP"
    /\ UNCHANGED <<appVars, players, tgt, currentTeamColor, nextTeamColor, introTeamColor,
                   draftQueue, lockedPlayers, lastTeamInfo, isMuted, proc, zombie,
                   timer, toggles>>

\* CONTINUE TO RESULTS: onComplete(teams) unmounts the lottery
\* onComplete(teams) is completeLottery; App then shows the playing order
finishDraft ==
    /\ phase = "FINAL_RECAP"
    /\ phase' = "DONE"
    /\ lastOp' = "finishDraft"
    /\ completeLottery([i \in 1..Len(TeamColorValues) |->
                            Team(TeamColorValues[i], teams[TeamColorValues[i]], 0)])
    /\ UNCHANGED <<players, tgt, unassignedPlayers, teams, currentTeamColor,
                   nextTeamColor, introTeamColor, draftQueue, lockedPlayers,
                   lastTeamInfo, isMuted, proc, zombie, timer, toggles>>

(***************************************************************************)
(* The state before the lottery is mounted, shared by the specifications   *)
(* that exercise a single function.                                        *)
(***************************************************************************)

LotteryMounted(ps) ==
    /\ players = ps
    /\ unassignedPlayers = ps
    /\ teams = EmptyTeams
    /\ phase = "IDLE"
    /\ currentTeamColor = NULL
    /\ nextTeamColor = NULL
    /\ introTeamColor = NULL
    /\ draftQueue = <<>>
    /\ lockedPlayers = <<>>
    /\ lastTeamInfo = <<>>
    /\ isMuted = FALSE
    /\ proc = NoProc
    /\ zombie = NoZombie
    /\ timer = FALSE
    /\ toggles = 0
    /\ lastOp = "mount"

\* App while the lottery is shown, before any team is stored
LotteryShown ==
    /\ appState = "LOTTERY"
    /\ appTeams = InitialTeams
    /\ matchups = <<>>
    /\ helperBucketAssignments = <<>>
    /\ poolsByColor = <<>>
    /\ scoreCall = <<>>
    /\ RaffleClosed
    /\ ResultsPhaseUnmounted

(***************************************************************************)
(* Specification of buildGenderTargets alone: any roster, one call.        *)
(***************************************************************************)
InitTargets ==
    /\ \E ps \in Rosters(MaxTargetRoster) : LotteryMounted(ps)
    /\ tgt = <<>>
    /\ LotteryShown

CallBuildGenderTargets ==
    /\ tgt = <<>>
    /\ tgt' = <<buildGenderTargets(players)>>
    /\ UNCHANGED <<allocVars, appVars>>

NextTargets == CallBuildGenderTargets

SpecTargets == InitTargets /\ [][NextTargets]_vars

NonFlexibleOf(ps, g) == CountWhere(ps, LAMBDA p : p.gender = g /\ ~p.noGenderRestriction)
TargetsOf(t, g) == [i \in 1..Len(TEAM_COLORS_LIST) |-> t[TEAM_COLORS_LIST[i]][g]]

\* C2: for every gender the targets summed over all team colors equal the
\* number of roster players of that gender that are not flexible; flexible
\* players contribute to no target.
GenderTargetConservation ==
    tgt # <<>> =>
        \A g \in Gender : SumSeq(TargetsOf(tgt[1], g)) = NonFlexibleOf(players, g)

\* a roster with flexible and gender-restricted players of one gender, enough
\* of the latter for every team to get one, has been given its targets
GenderTargetConservationWitness ==
    /\ tgt # <<>>
    /\ \E g \in Gender :
        /\ NonFlexibleOf(players, g) > Len(TEAM_COLORS_LIST)
        /\ \E i \in DOMAIN players :
              players[i].gender = g /\ players[i].noGenderRestriction

\* C3: for every gender the largest and the smallest per-team target differ
\* by at most 1, and the teams holding the larger value are exactly the first
\* (total mod teamCount) teams in color order.
TargetFairness ==
    tgt # <<>> =>
        \A g \in Gender :
            LET vals == SeqToSet(TargetsOf(tgt[1], g))
                total == NonFlexibleOf(players, g)
            IN  /\ MaxOf(vals) - MinOf(vals) <= 1
                /\ {c \in TeamColor : tgt[1][c][g] > MinOf(vals)}
                     = {c \in TeamColor : ColorIdx(c) < total % Len(TEAM_COLORS_LIST)}

\* targets of a gender whose total leaves a remainder above a non-zero base
TargetFairnessWitness ==
    /\ tgt # <<>>
    /\ \E g \in Gender :
        /\ NonFlexibleOf(players, g) > Len(TEAM_COLORS_LIST)
        /\ NonFlexibleOf(players, g) % Len(TEAM_COLORS_LIST) > 0
        /\ tgt[1]["Red"][g] = 2 /\ tgt[1]["Purple"][g] = 1

(***************************************************************************)
(* Specification of the lottery: every roster, all teams empty.            *)
(***************************************************************************)
InitAlloc ==
    /\ \E ps \in LotteryRosters(MaxRoster, MaxOther) : LotteryMounted(ps)
    /\ tgt = <<>>
    /\ LotteryShown

NextAlloc ==
    \/ startNextTeam
    \/ introTimer
    \/ processDraftRollEnd
    \/ processDraftLoop
    \/ processDraftSuspenseLock
    \/ processDraftFinal
    \/ confirmTeam
    \/ lastTeamTimer
    \/ viewAllTeams
    \/ initiateNextTeam
    \/ skipTeam
    \/ quickFinish
    \/ finishDraft

SpecAlloc == InitAlloc /\ [][NextAlloc]_vars

(***************************************************************************)
(* Specification of the lottery's drafting with toggleMute calls, on small *)
(* rosters of every kind (the buttons that need more than 5 players never  *)
(* show there).                                                            *)
(***************************************************************************)
InitDraft ==
    /\ \E ps \in Rosters(MaxDraftRoster) : LotteryMounted(ps)
    /\ tgt = <<>>
    /\ LotteryShown

NextDraft ==
    \/ startNextTeam
    \/ introTimer
    \/ processDraftRollEnd
    \/ processDraftLoop
    \/ processDraftSuspenseLock
    \/ processDraftFinal
    \/ cancelledLock
    \/ cancelledFinal
    \/ toggleMute
    \/ confirmTeam
    \/ initiateNextTeam
    \/ skipTeam
    \/ finishDraft

SpecDraft == InitDraft /\ [][NextDraft]_vars

\* how often a player id occurs in the member lists of all teams
Memberships(id) ==
    SumSeq([i \in 1..Len(TEAM_COLORS_LIST) |->
        CountWhere(teams[TEAM_COLORS_LIST[i]], LAMBDA m : m.id = id)])

\* C1: once an allocation run has finished (FINAL_RECAP reached), every
\* player of the roster is a member of exactly one team, exactly once.
AllocationComplete ==
    phase \in {"FINAL_RECAP", "DONE"} =>
        \A i \in DOMAIN players : Memberships(players[i].id) = 1

\* C4: a draft step for the next empty team (the intro timer, startNextTeam,
\* initiateNextTeam) either assigns at least one player or ends the
\* allocation: it never reaches SUMMARY with nobody drafted while players
\* still wait in the pool.
DraftStepAssignsOrEnds ==
    (lastOp \in {"introTimer", "startNextTeam", "initiateNextTeam"} /\ phase = "SUMMARY")
        => (draftQueue # <<>> \/ unassignedPlayers = <<>>)

HelperNames == <<<<90>>, <<97, 98>>, <<65, 99>>>>       \* "Z", "ab", "Ac"

\* what a player of the teams can be: restricted or flexible of each gender,
\* male helper of each name, flexible male helper, female helper
MatchKinds ==
    <<[gender |-> "M", flex |-> FALSE, helper |-> FALSE, name |-> NameP],
      [gender |-> "M", flex |-> TRUE, helper |-> FALSE, name |-> NameP],
      [gender |-> "M", flex |-> TRUE, helper |-> TRUE, name |-> NameP],
      [gender |-> "M", flex |-> FALSE, helper |-> TRUE, name |-> HelperNames[1]],
      [gender |-> "M", flex |-> FALSE, helper |-> TRUE, name |-> HelperNames[2]],
      [gender |-> "M", flex |-> FALSE, helper |-> TRUE, name |-> HelperNames[3]],
      [gender |-> "F", flex |-> FALSE, helper |-> FALSE, name |-> NameP],
      [gender |-> "F", flex |-> TRUE, helper |-> FALSE, name |-> NameP],
      [gender |-> "F", flex |-> FALSE, helper |-> TRUE, name |-> HelperNames[1]],
      [gender |-> "NB", flex |-> FALSE, helper |-> FALSE, name |-> NameP],
      [gender |-> "NB", flex |-> TRUE, helper |-> FALSE, name |-> NameP]>>

\* the teams list in which player i has kind kinds[i] and is a member of the
\* team of color TeamColorValues[colors[i]]; the teams without members are
\* listed or not
MatchTeams(n, kinds, colors, listEmpty) ==
    LET all == [i \in 1..n |-> Player(i, MatchKinds[kinds[i]].gender, MatchKinds[kinds[i]].flex,
                                      MatchKinds[kinds[i]].helper, MatchKinds[kinds[i]].name)]
        list == [c \in 1..Len(TeamColorValues) |->
                    Team(TeamColorValues[c], SelectSeq(all, LAMBDA p : colors[p.id] = c), 0)]
    IN  IF listEmpty THEN list ELSE SelectSeq(list, LAMBDA t : t.members # <<>>)

\* appTeams is one of the teams lists of at most MaxMatchPlayers players
MatchInputs ==
    \E n \in 0..MaxMatchPlayers :
        \E kinds \in [1..n -> 1..Len(MatchKinds)] :
            \E colors \in {f \in [1..n -> 1..MaxMatchColors] :
                            \A i \in 1..n : \A j \in 1..n : i <= j => f[i] <= f[j]} :
                \E listEmpty \in BOOLEAN :
                    appTeams = MatchTeams(n, kinds, colors, listEmpty)

InitMatch ==
    /\ LotteryMounted(<<>>)
    /\ tgt = <<>>
    /\ appState = "RESULTS"
    /\ MatchInputs
    /\ matchups = <<>>
    /\ helperBucketAssignments = <<>>
    /\ poolsByColor = <<>>
    /\ scoreCall = <<>>
    /\ RaffleClosed
    /\ ResultsPhaseShown

NextMatch ==
    \/ handleViewMatchups
    \/ handleProceedToScoreboard

SpecMatch == InitMatch /\ [][NextMatch]_vars

\* all members of all teams of a teams list
RECURSIVE allMembers(_)
allMembers(ts) == IF ts = <<>> THEN <<>> ELSE Head(ts).members \o allMembers(Tail(ts))

\* the round has no player at all
AllNull(round) == \A i \in DOMAIN round.players : round.players[i].player = <<>>

\* C6: every round of the list returned by generateMatchups has exactly one
\* entry per team color, in the order Red, Blue, Green, Yellow, Pink, Purple
MatchupColorCompleteness ==
    \A r \in DOMAIN matchups :
        /\ Len(matchups[r].players) = 6
        /\ [i \in 1..6 |-> matchups[r].players[i].color]
              = <<"Red", "Blue", "Green", "Yellow", "Pink", "Purple">>

\* generateMatchups was given a list that lacks colors and returned several
\* rounds, one of them with a player for Red and none for Blue
MatchupColorCompletenessWitness ==
    /\ Len(appTeams) < 6
    /\ Len(matchups) >= 2
    /\ \E r \in DOMAIN matchups :
        /\ matchups[r].players[1].player # <<>>
        /\ matchups[r].players[2].player = <<>>

\* C7 as stated: no round of the returned list has player = null for every
\* color, whatever the teams
NoAllNullRound == \A r \in DOMAIN matchups : ~AllNull(matchups[r])

\* C7, amended: a round with player = null for every color is returned only
\* when no team has a member, and it is then the only round
NoAllNullRoundUnlessNoPlayers ==
    \A r \in DOMAIN matchups :
        AllNull(matchups[r]) => allMembers(appTeams) = <<>> /\ Len(matchups) = 1

\* teams with a restricted and two flexible players gave several rounds,
\* the last of them a leftover row that holds a flexible player
NoAllNullRoundWitness ==
    /\ Len(allMembers(appTeams)) = 3
    /\ Len(matchups) >= 2
    /\ \E i \in 1..6 :
        /\ matchups[Len(matchups)].players[i].player # <<>>
        /\ matchups[Len(matchups)].players[i].player[1].noGenderRestriction
    /\ \E i \in 1..6 : matchups[Len(matchups)].players[i].player = <<>>

\* C8: the returned list has matchups[i].id = i + 1 for every 0-based index
\* i, which is position i + 1 of the sequence
DenseMatchupIds == \A r \in DOMAIN matchups : matchups[r].id = r

\* a list of three rounds was returned
DenseMatchupIdsWitness == Len(matchups) = 3 /\ matchups[3].id = 3

\* C9: with no player in any team (no team listed, or only teams without
\* members) the call goes through and returns exactly one round, with id 1
\* and an entry with player = null for each color
NoPlayersSingleEmptyRound ==
    allMembers(appTeams) = <<>> =>
        /\ appState = "RESULTS" /\ matchups = <<>> => ENABLED handleViewMatchups
        /\ appState = "MATCHUPS" =>
            /\ Len(matchups) = 1
            /\ matchups[1].id = 1
            /\ Len(matchups[1].players) = 6
            /\ \A i \in 1..6 :
                /\ matchups[1].players[i].color = TeamColorValues[i]
                /\ matchups[1].players[i].player = <<>>

\* generateMatchups has returned for the empty teams list
NoPlayersSingleEmptyRoundWitness ==
    /\ appTeams = <<>>
    /\ appState = "MATCHUPS"
    /\ Len(matchups) = 1

(***************************************************************************)
(* Specification of the score mutators: the scoreboard screen, two teams   *)
(* with members and scores >= 0, updates of these two teams.               *)
(***************************************************************************)
ScoreColors == {"Red", "Blue"}

ScoreInputs ==
    {[i \in 1..Len(TeamColorValues) |->
        Team(TeamColorValues[i],
             IF i = 1 THEN <<[Player(1, "M", FALSE, FALSE, NameP) EXCEPT !.score = s[3]],
                             [Player(2, "F", FALSE, FALSE, NameP) EXCEPT !.score = s[4]]>>
             ELSE IF i = 2 THEN <<[Player(3, "M", TRUE, FALSE, NameP) EXCEPT !.score = s[5]]>>
             ELSE <<>>,
             IF i = 1 THEN s[1] ELSE IF i = 2 THEN s[2] ELSE 0)] :
        s \in [1..5 -> 0..MaxInitScore]}

\* the scores stay within the bound of the model
ScoresWithin(ts) ==
    \A i \in DOMAIN ts :
        /\ ts[i].score <= MaxScore
        /\ \A k \in DOMAIN ts[i].members : ts[i].members[k].score <= MaxScore

updateTeamScore ==
    /\ appState = "RESULTS"
    /\ \E teamColor \in ScoreColors, delta \in (0 - MaxDelta)..MaxDelta :
        LET next == updateTeamScoreOf(appTeams, teamColor, delta)
        IN  /\ ScoresWithin(next)
            /\ appTeams' = next
            /\ syncDrafts(next, matchups)
            /\ scoreCall' = <<[op |-> "updateTeamScore", teamColor |-> teamColor,
                               playerId |-> 0, delta |-> delta, prev |-> appTeams]>>
    /\ UNCHANGED <<appState, matchups, helperBucketAssignments, poolsByColor, raffleVars,
                   tgt, allocVars>>

updatePlayerScore ==
    /\ appState = "RESULTS"
    /\ \E teamColor \in ScoreColors, playerId \in Ids(allMembers(appTeams)),
          delta \in (0 - MaxDelta)..MaxDelta :
        LET next == updatePlayerScoreOf(appTeams, teamColor, playerId, delta)
        IN  /\ ScoresWithin(next)
            /\ appTeams' = next
            /\ syncDrafts(next, matchups)
            /\ scoreCall' = <<[op |-> "updatePlayerScore", teamColor |-> teamColor,
                               playerId |-> playerId, delta |-> delta, prev |-> appTeams]>>
    /\ UNCHANGED <<appState, matchups, helperBucketAssignments, poolsByColor, raffleVars,
                   tgt, allocVars>>

InitScore ==
    /\ LotteryMounted(<<>>)
    /\ tgt = <<>>
    /\ appState = "RESULTS"
    /\ appTeams \in ScoreInputs
    /\ matchups = <<>>
    /\ helperBucketAssignments = <<>>
    /\ poolsByColor = <<>>
    /\ scoreCall = <<>>
    /\ RaffleClosed
    /\ ResultsPhaseShown

NextScore ==
    \/ updateTeamScore
    \/ updatePlayerScore

SpecScore == InitScore /\ [][NextScore]_vars

\* C10: after every updateTeamScore and updatePlayerScore call, every team
\* score and every player score is >= 0
ScoreFloor ==
    \A i \in DOMAIN appTeams :
        /\ appTeams[i].score >= 0
        /\ \A k \in DOMAIN appTeams[i].members : appTeams[i].members[k].score >= 0

\* score updates took a member of Red to the largest score and Red itself
\* back down to 0
ScoreFloorWitness ==
    /\ appTeams[1].score = 0
    /\ appTeams[1].members[1].score = MaxScore
    /\ appTeams[2].members[1].score = 0

\* the last call was updatePlayerScore, on member k of team i
PlayerCallOn(i, k) ==
    /\ scoreCall # <<>>
    /\ scoreCall[1].op = "updatePlayerScore"
    /\ scoreCall[1].prev[i].color = scoreCall[1].teamColor
    /\ scoreCall[1].prev[i].members[k].id = scoreCall[1].playerId

\* newScore - (m.score || 0) of the last call, for member k of team i
AppliedDifference(i, k) ==
    appTeams[i].members[k].score - scoreCall[1].prev[i].members[k].score

\* C11 as stated: updatePlayerScore sets the player's score to
\* max(0, old + delta) and changes the team's score by exactly the applied
\* difference (new player score minus old player score)
PlayerScoreMovesTeamByApplied ==
    \A i \in DOMAIN appTeams : \A k \in DOMAIN appTeams[i].members :
        PlayerCallOn(i, k) =>
            /\ appTeams[i].members[k].score
                 = Max2(0, scoreCall[1].prev[i].members[k].score + scoreCall[1].delta)
            /\ appTeams[i].score = scoreCall[1].prev[i].score + AppliedDifference(i, k)

\* C11 amended: updatePlayerScore sets the player's score to
\* max(0, old + delta) and the team's score to max(0, old team score + the
\* applied difference): the team moves by exactly the applied difference
\* whenever its score is at least the player's decrease
PlayerScoreMovesTeamClamped ==
    \A i \in DOMAIN appTeams : \A k \in DOMAIN appTeams[i].members :
        PlayerCallOn(i, k) =>
            /\ appTeams[i].members[k].score
                 = Max2(0, scoreCall[1].prev[i].members[k].score + scoreCall[1].delta)
            /\ appTeams[i].score
                 = Max2(0, scoreCall[1].prev[i].score + AppliedDifference(i, k))
            /\ scoreCall[1].prev[i].score + AppliedDifference(i, k) >= 0
                 => appTeams[i].score - scoreCall[1].prev[i].score = AppliedDifference(i, k)

\* a member of Red at the largest score was given a larger negative delta:
\* the member ends at 0 and Red, which had that score too, drops by it
PlayerScoreMovesTeamClampedWitness ==
    /\ PlayerCallOn(1, 1)
    /\ scoreCall[1].prev[1].members[1].score = MaxScore
    /\ scoreCall[1].prev[1].score = MaxScore
    /\ scoreCall[1].delta < 0 - MaxScore
    /\ appTeams[1].members[1].score = 0
    /\ appTeams[1].score = 0

(***************************************************************************)
(* Specification of updatePlayerScore alone: every team score and member   *)
(* score starts at 0 and only updatePlayerScore is called.                 *)
(***************************************************************************)
InitPlayerScore ==
    /\ InitScore
    /\ \A i \in DOMAIN appTeams :
        /\ appTeams[i].score = 0
        /\ \A k \in DOMAIN appTeams[i].members : appTeams[i].members[k].score = 0

NextPlayerScore == updatePlayerScore

SpecPlayerScore == InitPlayerScore /\ [][NextPlayerScore]_vars

\* sum(member.score for member in team.members)
memberScoreSum(team) == SumSeq([k \in DOMAIN team.members |-> team.members[k].score])

\* C12: starting from teams whose team score and member scores are all 0,
\* after any sequence of updatePlayerScore calls every team's score equals
\* the sum of the scores of its members
TeamScoreIsMemberSum ==
    \A i \in DOMAIN appTeams : appTeams[i].score = memberScoreSum(appTeams[i])

\* the last call took a member of Red down to 0 with a delta larger than the
\* member's score, while the other member of Red keeps a score
TeamScoreIsMemberSumWitness ==
    /\ PlayerCallOn(1, 1)
    /\ scoreCall[1].prev[1].members[1].score > 0
    /\ scoreCall[1].prev[1].members[1].score + scoreCall[1].delta < 0
    /\ appTeams[1].members[1].score = 0
    /\ appTeams[1].members[2].score > 0
    /\ appTeams[1].score = appTeams[1].members[2].score

(***************************************************************************)
(* Claims about the rounds of generateMatchups, read off the teams it was  *)
(* given (appTeams) and the list it returned (matchups).                   *)
(***************************************************************************)
\* generateMatchups has run on appTeams and matchups holds what it returned
Generated == appState = "MATCHUPS"

\* the flexible members of the team of color TeamColorValues[i], in list order
flexibleOf(i) ==
    SelectSeq(teamMembers(appTeams, TeamColorValues[i]), LAMBDA m : m.noGenderRestriction)

\* the indices of the colors whose team has a flexible member
flexibleColors == {i \in 1..Len(TeamColorValues) : flexibleOf(i) # <<>>}

\* the first flexible player scanning the teams in color order
firstFlexible == Head(flexibleOf(MinOf(flexibleColors)))

\* the entry of color TeamColorValues[i] in a round
slotOf(round, i) == round.players[i].player

\* C13: if any team has a flexible player, the anchor is the first flexible
\* player in color order (members in list order); in the list returned by
\* generateMatchups it holds its own team's slot in Round 1 and every player
\* of Round 1 has the anchor's gender
AnchorOpensRoundOne ==
    (Generated /\ flexibleColors # {}) =>
        /\ findGame1Anchor(appTeams) = <<firstFlexible>>
        /\ slotOf(matchups[1], MinOf(flexibleColors)) = <<firstFlexible>>
        /\ \A i \in DOMAIN matchups[1].players :
              slotOf(matchups[1], i) # <<>>
                  => slotOf(matchups[1], i)[1].gender = firstFlexible.gender

\* a female anchor in Blue opens Round 1 although Red has a male player and
\* no female: Red's slot of Round 1 is empty
AnchorOpensRoundOneWitness ==
    /\ Generated
    /\ flexibleColors # {}
    /\ MinOf(flexibleColors) = 2
    /\ firstFlexible.gender = "F"
    /\ \E m \in SeqToSet(teamMembers(appTeams, "Red")) : m.gender = "M"
    /\ slotOf(matchups[1], 2) = <<firstFlexible>>
    /\ slotOf(matchups[1], 1) = <<>>

\* the index of the color of the team that has the player with this id
teamIndexOf(id) ==
    MinOf({i \in 1..Len(TeamColorValues) :
             \E m \in SeqToSet(teamMembers(appTeams, TeamColorValues[i])) : m.id = id})

\* the non-flexible helpers of a gender, over all teams
restrictedHelpers(gender) ==
    {m \in SeqToSet(allMembers(appTeams)) :
        m.isHelper /\ ~m.noGenderRestriction /\ m.gender = gender}

\* game1HelperId of the run of generateMatchups on appTeams
game1HelperIdOfTeams ==
    game1HelperIdOf(teamSplit(appTeams, findGame1Anchor(appTeams)), findGame1Anchor(appTeams))

\* C14: when an anchor exists whose gender is Male or Female and at least
\* one non-flexible helper of that gender exists, the helper selected by
\* pickGame1HelperId holds its own team's slot in Round 1, whichever team it
\* belongs to
Game1HelperOpensRoundOne ==
    (/\ Generated
     /\ flexibleColors # {}
     /\ firstFlexible.gender \in {"M", "F"}
     /\ restrictedHelpers(firstFlexible.gender) # {}) =>
        /\ game1HelperIdOfTeams # <<>>
        /\ slotOf(matchups[1], teamIndexOf(game1HelperIdOfTeams[1])) # <<>>
        /\ slotOf(matchups[1], teamIndexOf(game1HelperIdOfTeams[1]))[1].id
             = game1HelperIdOfTeams[1]

(***************************************************************************)
(* Specification of generateMatchups on teams without flexible players:    *)
(* plain players of each gender, a male and a female helper.               *)
(***************************************************************************)
RowKinds ==
    {k \in DOMAIN MatchKinds :
        ~MatchKinds[k].flex /\ MatchKinds[k].name \in {NameP, HelperNames[1]}}

\* appTeams is one of the teams lists of at most MaxRowPlayers such players
RowInputs ==
    \E n \in 0..MaxRowPlayers :
        \E kinds \in [1..n -> RowKinds] :
            \E colors \in {f \in [1..n -> 1..MaxMatchColors] :
                            \A i \in 1..n : \A j \in 1..n : i <= j => f[i] <= f[j]} :
                \E listEmpty \in BOOLEAN :
                    appTeams = MatchTeams(n, kinds, colors, listEmpty)

InitRows ==
    /\ LotteryMounted(<<>>)
    /\ tgt = <<>>
    /\ appState = "RESULTS"
    /\ RowInputs
    /\ matchups = <<>>
    /\ helperBucketAssignments = <<>>
    /\ poolsByColor = <<>>
    /\ scoreCall = <<>>
    /\ RaffleClosed
    /\ ResultsPhaseShown

NextRows ==
    \/ handleViewMatchups
    \/ handleProceedToScoreboard

SpecRows == InitRows /\ [][NextRows]_vars

\* the largest number of members of a gender in one team
maxOfGender(gender) ==
    MaxOf({0} \cup {Len(SelectSeq(teamMembers(appTeams, TeamColorValues[i]),
                                  LAMBDA m : m.gender = gender)) :
                      i \in 1..Len(TeamColorValues)})

\* a round is a row of a gender: it has a player and its players have that gender
RowOfGender(round, gender) ==
    /\ ~AllNull(round)
    /\ \A i \in DOMAIN round.players :
          slotOf(round, i) # <<>> => slotOf(round, i)[1].gender = gender

\* the gender of round r when male and female rows alternate from a male
\* row, the longer gender follows and the non-binary rows come last
alternatingGender(r) ==
    IF r <= 2 * Min2(maxOfGender("M"), maxOfGender("F"))
    THEN (IF r % 2 = 1 THEN "M" ELSE "F")
    ELSE IF r <= maxOfGender("M") + maxOfGender("F")
    THEN (IF maxOfGender("M") > maxOfGender("F") THEN "M" ELSE "F")
    ELSE "NB"

\* the teams are Red:{M1,F1}, Blue:{M2,F2}
TwoPairs ==
    /\ \A i \in 1..2 :
          /\ Len(teamMembers(appTeams, TeamColorValues[i])) = 2
          /\ teamMembers(appTeams, TeamColorValues[i])[1].gender = "M"
          /\ teamMembers(appTeams, TeamColorValues[i])[2].gender = "F"
    /\ \A i \in 3..Len(TeamColorValues) : teamMembers(appTeams, TeamColorValues[i]) = <<>>

\* C15: with no flexible player and at least one male and one female, Round 1
\* is a male row, male and female rows alternate while both remain, then the
\* remaining rows of the other gender follow and the non-binary rows come
\* last; Red:{M1,F1}, Blue:{M2,F2} gives exactly 2 rounds with both colors
\* filled
RowsAlternate ==
    (/\ Generated
     /\ flexibleColors = {}
     /\ maxOfGender("M") > 0
     /\ maxOfGender("F") > 0) =>
        /\ Len(matchups) = maxOfGender("M") + maxOfGender("F") + maxOfGender("NB")
        /\ \A r \in DOMAIN matchups : RowOfGender(matchups[r], alternatingGender(r))
        /\ TwoPairs =>
              /\ Len(matchups) = 2
              /\ \A r \in DOMAIN matchups : \A i \in 1..2 : slotOf(matchups[r], i) # <<>>

\* Red has two males, two females: the rounds are male, female, male, female
RowsAlternateWitness ==
    /\ Generated
    /\ maxOfGender("M") = 2
    /\ maxOfGender("F") = 2
    /\ Len(matchups) = 4
    /\ RowOfGender(matchups[3], "M")
    /\ RowOfGender(matchups[4], "F")

absentColors ==
    {i \in 1..Len(TeamColorValues) :
        \A t \in DOMAIN appTeams : appTeams[t].color # TeamColorValues[i]}

\* appTeams with a team without members for every absent color
withAbsentTeams ==
    [i \in 1..Len(TeamColorValues) |->
        IF i \in absentColors THEN Team(TeamColorValues[i], <<>>, 0)
        ELSE appTeams[MinOf({t \in DOMAIN appTeams : appTeams[t].color = TeamColorValues[i]})]]

\* the lists generateMatchups can return for a teams list
matchupsOf(ts) == {run.matchups : run \in generateMatchups(ts)}

\* C17: if a team color is absent from the teams list the call does not
\* fail; the color is treated as a team with no members: its entry is in
\* every round with player = null and the other colors are laid out as if
\* that team were empty
AbsentColorIsEmptyTeam ==
    absentColors # {} =>
        /\ appState = "RESULTS" => ENABLED handleViewMatchups
        /\ Generated =>
              /\ \A r \in DOMAIN matchups : \A i \in absentColors :
                    /\ Len(matchups[r].players) = Len(TeamColorValues)
                    /\ matchups[r].players[i].color = TeamColorValues[i]
                    /\ slotOf(matchups[r], i) = <<>>
              /\ matchupsOf(appTeams) = matchupsOf(withAbsentTeams)

\* the list holds Blue only, Blue has a player in Round 1 and Red's entry is
\* there without a player
AbsentColorIsEmptyTeamWitness ==
    /\ Generated
    /\ absentColors = (1..Len(TeamColorValues)) \ {2}
    /\ slotOf(matchups[1], 2) # <<>>
    /\ matchups[1].players[1].color = "Red"
    /\ slotOf(matchups[1], 1) = <<>>

(***************************************************************************)
(* Raffle: RaffleSystem, shown by App while appState is RAFFLE.  Its       *)
(* buttons are the ones its render shows and enables.                      *)
(***************************************************************************)
\* players: teams.flatMap(team => team.members)
rafflePlayers == allMembers(appTeams)

\* the pool that still holds the winners
poolOfAll(ps, ids) == ps

\* pool: players.filter(player => !winnerIdSet.has(player.id))
poolOf(ps, ids) == SelectSeq(ps, LAMBDA player : player.id \notin SeqToSet(ids))

rafflePool == poolOf(rafflePlayers, winnerIds)

\* startDraw up to the await: the winner is drawn from the pool of this render
startDraw ==
    /\ appState = "RAFFLE"
    /\ ~(Len(rafflePool) = 0 \/ isRolling)
    /\ drawnPlayer = <<>>
    /\ isRolling' = TRUE
    /\ drawnPlayer' = <<>>
    /\ \E winnerIndex \in 1..Len(rafflePool) :
          draw' = <<[finalWinner |-> rafflePool[winnerIndex], pool |-> rafflePool,
                     winnerIds |-> winnerIds]>>
    /\ UNCHANGED <<winnerIds, rollingCandidate>>
    /\ UNCHANGED <<appState, appTeams, matchups, helperBucketAssignments, poolsByColor,
                   scoreCall, editVars, tgt, allocVars>>

\* a tick of the interval before the roll duration has elapsed
tickRoll ==
    /\ appState = "RAFFLE"
    /\ isRolling
    /\ draw # <<>>
    /\ \E candidate \in SeqToSet(draw[1].pool) : rollingCandidate' = <<candidate>>
    /\ UNCHANGED <<winnerIds, isRolling, drawnPlayer, draw>>
    /\ UNCHANGED <<appState, appTeams, matchups, helperBucketAssignments, poolsByColor,
                   scoreCall, editVars, tgt, allocVars>>

\* the last tick resolves the promise and startDraw goes on after the await
finishDraw ==
    /\ appState = "RAFFLE"
    /\ isRolling
    /\ draw # <<>>
    /\ rollingCandidate' = <<>>
    /\ drawnPlayer' = <<draw[1].finalWinner>>
    /\ isRolling' = FALSE
    /\ UNCHANGED <<winnerIds, draw>>
    /\ UNCHANGED <<appState, appTeams, matchups, helperBucketAssignments, poolsByColor,
                   scoreCall, editVars, tgt, allocVars>>

\* KEEP
handleKeepInPool ==
    /\ appState = "RAFFLE"
    /\ drawnPlayer # <<>>
    /\ drawnPlayer' = <<>>
    /\ UNCHANGED <<winnerIds, isRolling, rollingCandidate, draw>>
    /\ UNCHANGED <<appState, appTeams, matchups, helperBucketAssignments, poolsByColor,
                   scoreCall, editVars, tgt, allocVars>>

\* REMOVE
handleRemoveFromPool ==
    /\ appState = "RAFFLE"
    /\ drawnPlayer # <<>>
    /\ winnerIds' = IF drawnPlayer[1].id \in SeqToSet(winnerIds) THEN winnerIds
                    ELSE Append(winnerIds, drawnPlayer[1].id)
    /\ drawnPlayer' = <<>>
    /\ UNCHANGED <<isRolling, rollingCandidate, draw>>
    /\ UNCHANGED <<appState, appTeams, matchups, helperBucketAssignments, poolsByColor,
                   scoreCall, editVars, tgt, allocVars>>

\* Reset Pool, shown when the pool is empty, confirmed
handleResetPool ==
    /\ appState = "RAFFLE"
    /\ Len(rafflePool) = 0
    /\ drawnPlayer = <<>>
    /\ winnerIds' = <<>>
    /\ drawnPlayer' = <<>>
    /\ rollingCandidate' = <<>>
    /\ UNCHANGED <<isRolling, draw>>
    /\ UNCHANGED <<appState, appTeams, matchups, helperBucketAssignments, poolsByColor,
                   scoreCall, editVars, tgt, allocVars>>

\* Back to Scoreboard / Done: onBack is handleCloseRaffle, RaffleSystem is
\* unmounted and a draw still rolling ends without effect; the winners stay
\* in localStorage
handleBack ==
    /\ appState = "RAFFLE"
    /\ drawnPlayer = <<>>
    /\ drawnPlayer' = <<>>
    /\ rollingCandidate' = <<>>
    /\ isRolling' = FALSE
    /\ draw' = <<>>
    /\ appState' = "RESULTS"
    /\ mountResultsPhase(appTeams, matchups)
    /\ UNCHANGED <<winnerIds, appTeams, matchups, helperBucketAssignments, poolsByColor,
                   scoreCall, tgt, allocVars>>

\* handleOpenRaffle: RaffleSystem is mounted, winnerIds is read from
\* localStorage and the effect on players drops the ids not in the roster
handleOpenRaffle ==
    /\ appState = "RESULTS"
    /\ appState' = "RAFFLE"
    /\ winnerIds' = SelectSeq(winnerIds, LAMBDA id : \E player \in SeqToSet(rafflePlayers) :
                                                       player.id = id)
    /\ isRolling' = FALSE
    /\ rollingCandidate' = <<>>
    /\ drawnPlayer' = <<>>
    /\ draw' = <<>>
    /\ unmountResultsPhase
    /\ UNCHANGED <<appTeams, matchups, helperBucketAssignments, poolsByColor,
                   scoreCall, tgt, allocVars>>

\* the lists of distinct ids localStorage can hold from an earlier raffle
StoredWinnerIds ==
    UNION {{ids \in [1..n -> 1..MaxRafflePlayers] :
              \A i \in 1..n : \A j \in 1..n : i # j => ids[i] # ids[j]} :
           n \in 0..MaxRafflePlayers}

\* the teams given to the raffle: plain players in Red and Blue
RaffleInputs ==
    \E n \in 0..MaxRafflePlayers :
        \E colors \in {f \in [1..n -> 1..2] :
                        \A i \in 1..n : \A j \in 1..n : i <= j => f[i] <= f[j]} :
            appTeams = MatchTeams(n, [i \in 1..n |-> 1], colors, TRUE)

InitRaffle ==
    /\ LotteryMounted(<<>>)
    /\ tgt = <<>>
    /\ appState = "RESULTS"
    /\ RaffleInputs
    /\ matchups = <<>>
    /\ helperBucketAssignments = <<>>
    /\ poolsByColor = <<>>
    /\ scoreCall = <<>>
    /\ winnerIds \in StoredWinnerIds
    /\ isRolling = FALSE
    /\ rollingCandidate = <<>>
    /\ drawnPlayer = <<>>
    /\ draw = <<>>
    /\ ResultsPhaseShown

NextRaffle ==
    \/ handleOpenRaffle
    \/ startDraw
    \/ tickRoll
    \/ finishDraw
    \/ handleKeepInPool
    \/ handleRemoveFromPool
    \/ handleResetPool
    \/ handleBack

SpecRaffle == InitRaffle /\ [][NextRaffle]_vars

\* C18: a player recorded in winnerIds is never the result of a later draw
\* until the pool is reset; every drawn player belongs to the pool (team
\* members minus winners) at the moment its draw starts; winnerIds never
\* contains an id twice
RaffleNoRepeat ==
    /\ drawnPlayer # <<>> =>
          /\ drawnPlayer[1].id \notin SeqToSet(winnerIds)
          /\ draw # <<>>
          /\ drawnPlayer[1] \in SeqToSet(draw[1].pool)
          /\ SeqToSet(draw[1].pool)
               = {player \in SeqToSet(rafflePlayers) :
                    player.id \notin SeqToSet(draw[1].winnerIds)}
    /\ \A i \in DOMAIN winnerIds : \A j \in DOMAIN winnerIds :
          i # j => winnerIds[i] # winnerIds[j]

\* two players were removed from the pool and a later draw gave the third
RaffleNoRepeatWitness ==
    /\ appState = "RAFFLE"
    /\ Len(rafflePlayers) = MaxRafflePlayers
    /\ Len(winnerIds) = MaxRafflePlayers - 1
    /\ drawnPlayer # <<>>
    /\ draw[1].winnerIds = winnerIds

(***************************************************************************)
(* Specification of pickBatch alone: LotteryPhase mounted with any roster, *)
(* any of its players already members of Red or Blue (initialTeams), the   *)
(* others in the pool; pickBatch(unassignedPlayers, color, teams) is       *)
(* called for any color and its batch is kept in draftQueue.               *)
(***************************************************************************)
\* the members the roster ps puts into the team of color c
pickMembers(ps, where, c) ==
    SelectSeq(ps, LAMBDA p : where[p.id] > 0 /\ TEAM_COLORS_LIST[where[p.id]] = c)

InitPick ==
    /\ \E ps \in Rosters(MaxPickRoster) :
        \E where \in [1..Len(ps) -> 0..2] :
            /\ players = ps
            /\ unassignedPlayers = SelectSeq(ps, LAMBDA p : where[p.id] = 0)
            /\ teams = [c \in TeamColor |-> pickMembers(ps, where, c)]
    /\ phase = "IDLE"
    /\ currentTeamColor = NULL
    /\ nextTeamColor = NULL
    /\ introTeamColor = NULL
    /\ draftQueue = <<>>
    /\ lockedPlayers = <<>>
    /\ lastTeamInfo = <<>>
    /\ isMuted = FALSE
    /\ proc = NoProc
    /\ zombie = NoZombie
    /\ timer = FALSE
    /\ toggles = 0
    /\ lastOp = "mount"
    /\ tgt = <<>>
    /\ LotteryShown

\* const winners = pickBatch(unassignedPlayers, color, teams)
callPickBatch ==
    /\ \E color \in TeamColor :
        /\ currentTeamColor' = color
        /\ draftQueue' \in pickBatch(unassignedPlayers, color, teams)
    /\ lastOp' = "pickBatch"
    /\ UNCHANGED <<appVars, players, tgt, unassignedPlayers, teams, phase, nextTeamColor,
                   introTeamColor, lockedPlayers, lastTeamInfo, isMuted, proc, zombie,
                   timer, toggles>>

NextPick == callPickBatch

SpecPick == InitPick /\ [][NextPick]_vars

\* the non-flexible players of a gender in a list
restrictedOf(list, gender) ==
    SelectSeq(list, LAMBDA p : ~p.noGenderRestriction /\ p.gender = gender)

\* needed[g] for the team of currentTeamColor
neededOf(gender) ==
    Max2(genderTargets[currentTeamColor][gender]
           - Len(restrictedOf(teams[currentTeamColor], gender)), 0)

\* C19: the batch returned by pickBatch holds, for each gender g, exactly
\* min(needed[g], number of non-flexible players of gender g in the pool)
\* non-flexible players of gender g, needed[g] being max(target[color][g]
\* - assigned non-flexible members of gender g, 0); no player is in the
\* batch twice
BatchMeetsGenderNeeds ==
    lastOp = "pickBatch" =>
        /\ \A g \in Gender :
              Len(restrictedOf(draftQueue, g))
                = Min2(neededOf(g), Len(restrictedOf(unassignedPlayers, g)))
        /\ \A i \in DOMAIN draftQueue : \A j \in DOMAIN draftQueue :
              i # j => draftQueue[i].id # draftQueue[j].id
        /\ \A i \in DOMAIN draftQueue :
              \E k \in DOMAIN unassignedPlayers : unassignedPlayers[k] = draftQueue[i]

\* the team needs a male and the pool has none, the pool has more females
\* than the team needs: the batch holds the needed females only
BatchMeetsGenderNeedsWitness ==
    /\ lastOp = "pickBatch"
    /\ neededOf("M") > 0
    /\ Len(restrictedOf(unassignedPlayers, "M")) = 0
    /\ neededOf("F") > 0
    /\ Len(restrictedOf(unassignedPlayers, "F")) > neededOf("F")
    /\ Len(draftQueue) = neededOf("F")

\* the sum of the gender targets of a team
targetSum(color) ==
    genderTargets[color]["M"] + genderTargets[color]["F"] + genderTargets[color]["NB"]

\* the largest sum of gender targets over all teams minus that of the team
\* of currentTeamColor
shortageOf ==
    MaxOf({targetSum(c) : c \in TeamColor}) - targetSum(currentTeamColor)

\* the flexible players of a list
flexibleIn(list) == SelectSeq(list, LAMBDA p : p.noGenderRestriction)

\* C20: the number of flexible players in the batch returned by pickBatch
\* equals min(shortage, number of flexible players in the pool); a team
\* whose gender-based size equals the maximum receives no flexible player
BatchFlexibleFillsShortage ==
    lastOp = "pickBatch" =>
        /\ Len(flexibleIn(draftQueue)) = Min2(shortageOf, Len(flexibleIn(unassignedPlayers)))
        /\ shortageOf = 0 => flexibleIn(draftQueue) = <<>>

\* a team one short of the largest gender-based size, two flexible players
\* in the pool: the batch holds exactly one of them
BatchFlexibleFillsShortageWitness ==
    /\ lastOp = "pickBatch"
    /\ shortageOf = 1
    /\ Len(flexibleIn(unassignedPlayers)) = 2
    /\ Len(flexibleIn(draftQueue)) = 1

(***************************************************************************)
(* Claims about the helper placement of generateMatchups.                  *)
(***************************************************************************)
\* helper h comes before helper k in the order Z to A of the first letter
\* ignoring case, then of the full name, compared as localeCompare does
sortsBefore(h, k) ==
    \/ toUpperCase(h.name[1]) > toUpperCase(k.name[1])
    \/ /\ toUpperCase(h.name[1]) = toUpperCase(k.name[1])
       /\ localeCompare(h.name, k.name) > 0

\* C21: pickGame1HelperId returns, among the non-flexible helpers of the
\* anchor's gender of all teams, one that no other such helper comes before
\* in the order Z to A of the first letter ignoring case, then of the full
\* name; it returns none when there is no such helper or no anchor
Game1HelperIsGreatest ==
    Generated =>
        \A picked \in {game1HelperIdOfTeams} :
            IF flexibleColors = {} THEN picked = <<>>
            ELSE \A helpers \in {restrictedHelpers(firstFlexible.gender)} :
                    IF helpers = {} THEN picked = <<>>
                    ELSE \E h \in helpers :
                            /\ picked = <<h.id>>
                            /\ \A k \in helpers : ~sortsBefore(k, h)

\* "ab" and "Ac" are the helpers of the anchor's gender, "ab" listed first:
\* the first letters tie and "Ac" is returned
Game1HelperIsGreatestWitness ==
    /\ Generated
    /\ flexibleColors # {}
    /\ \E h \in restrictedHelpers(firstFlexible.gender) :
          \E k \in restrictedHelpers(firstFlexible.gender) :
              /\ h.name = HelperNames[2]
              /\ k.name = HelperNames[3]
              /\ h.id < k.id
              /\ game1HelperIdOfTeams = <<k.id>>

(***************************************************************************)
(* Specification of generateMatchups on teams of males and females of at   *)
(* most MaxHelperPlayers players: plain players, helpers of one name, a    *)
(* flexible male.                                                          *)
(***************************************************************************)
HelperKinds ==
    {k \in DOMAIN MatchKinds :
        /\ MatchKinds[k].name \in {NameP, HelperNames[1]}
        /\ MatchKinds[k].gender \in {"M", "F"}
        /\ MatchKinds[k].flex => (MatchKinds[k].gender = "M" /\ ~MatchKinds[k].helper)}

\* appTeams is one of the teams lists of at most MaxHelperPlayers such players
HelperInputs ==
    \E n \in 0..MaxHelperPlayers :
        \E kinds \in [1..n -> HelperKinds] :
            \E colors \in {f \in [1..n -> 1..MaxMatchColors] :
                            \A i \in 1..n : \A j \in 1..n : i <= j => f[i] <= f[j]} :
                \E listEmpty \in BOOLEAN :
                    appTeams = MatchTeams(n, kinds, colors, listEmpty)

InitHelpers ==
    /\ LotteryMounted(<<>>)
    /\ tgt = <<>>
    /\ appState = "RESULTS"
    /\ HelperInputs
    /\ matchups = <<>>
    /\ helperBucketAssignments = <<>>
    /\ poolsByColor = <<>>
    /\ scoreCall = <<>>
    /\ RaffleClosed
    /\ ResultsPhaseShown

NextHelpers ==
    \/ handleViewMatchups
    \/ handleProceedToScoreboard

SpecHelpers == InitHelpers /\ [][NextHelpers]_vars

\* the bucket helperBucketAssignments holds for a player id
bucketOf(id) ==
    IF id \in DOMAIN helperBucketAssignments THEN helperBucketAssignments[id] ELSE "none"

\* the non-flexible helpers of a gender in the team of color TeamColorValues[i]
helpersOf(i, gender) ==
    {m \in SeqToSet(teamMembers(appTeams, TeamColorValues[i])) :
        m.isHelper /\ ~m.noGenderRestriction /\ m.gender = gender}

\* the helpers of a gender in team i that hold a bucket
helpersIn(i, gender, bucket) == {h \in helpersOf(i, gender) : bucketOf(h.id) = bucket}

\* the number of helpers of a gender, over all teams, that hold a bucket
assignedTo(gender, bucket) ==
    Cardinality({h \in restrictedHelpers(gender) : bucketOf(h.id) = bucket})

\* the gender-specific players of a gender in team i: the anchor counts
genderSpecificOf(i, gender) ==
    genderSpecificAll(appTeams, findGame1Anchor(appTeams), TeamColorValues[i], gender)

\* the slot config of team i for a gender
slotConfigOf(i, gender) ==
    getHelperSlotConfig(findGame1Anchor(appTeams), gender, Len(genderSpecificOf(i, gender)))

\* the genders that are not the start gender
otherGenders ==
    {g \in Gender : ~isStartGender(findGame1Anchor(appTeams), g)}

\* C22: when an anchor exists, after assignBucketsForGender no helper of the
\* anchor's gender is assigned 'early': each is the Round-1 pick, assigned
\* 'late' or unassigned, and at most one helper per team is assigned 'late'
StartGenderHelpersNeverEarly ==
    (Generated /\ flexibleColors # {}) =>
        /\ \A h \in restrictedHelpers(firstFlexible.gender) :
              /\ bucketOf(h.id) # "early"
              /\ \/ <<h.id>> = game1HelperIdOfTeams
                 \/ bucketOf(h.id) = "late"
                 \/ bucketOf(h.id) = "none"
        /\ \A i \in 1..Len(TeamColorValues) :
              Cardinality(helpersIn(i, firstFlexible.gender, "late")) <= 1

\* Red has the anchor and the Round-1 pick, Blue two helpers of the anchor's
\* gender: both teams have a late slot, one helper of Blue is assigned
\* 'late' and the other one is left unassigned
StartGenderHelpersNeverEarlyWitness ==
    /\ Generated
    /\ flexibleColors # {}
    /\ game1HelperIdOfTeams # <<>>
    /\ teamIndexOf(game1HelperIdOfTeams[1]) = 1
    /\ Cardinality(helpersOf(2, firstFlexible.gender)) = 2
    /\ Cardinality(helpersIn(2, firstFlexible.gender, "late")) = 1
    /\ Cardinality(helpersIn(2, firstFlexible.gender, "none")) = 1

\* C23: for a gender that is not the start gender, with H helpers of that
\* gender, at most floor(H / 2) helpers and at most as many helpers as teams
\* have a late slot for that gender are assigned 'late', and no team has
\* two helpers of that gender assigned 'late'
OtherGenderLateBounds ==
    Generated =>
        \A g \in otherGenders :
            /\ assignedTo(g, "late") <= Cardinality(restrictedHelpers(g)) \div 2
            /\ assignedTo(g, "late")
                 <= Cardinality({i \in 1..Len(TeamColorValues) :
                                    slotConfigOf(i, g).lateIndex # <<>>})
            /\ \A i \in 1..Len(TeamColorValues) : Cardinality(helpersIn(i, g, "late")) <= 1

\* four helpers of a gender that is not the start gender, two in Red and two
\* in Blue: one helper of each team is assigned 'late'
OtherGenderLateBoundsWitness ==
    /\ Generated
    /\ \E g \in otherGenders :
          /\ Cardinality(helpersOf(1, g)) = 2
          /\ Cardinality(helpersOf(2, g)) = 2
          /\ Cardinality(helpersIn(1, g, "late")) = 1
          /\ Cardinality(helpersIn(2, g, "late")) = 1

\* C24: for a gender that is not the start gender, after
\* assignBucketsForGender no team has two helpers of that gender assigned
\* 'early', and at most as many helpers as teams have an early slot for that
\* gender are assigned 'early'
OtherGenderEarlyOnePerTeam ==
    Generated =>
        \A g \in otherGenders :
            /\ \A i \in 1..Len(TeamColorValues) : Cardinality(helpersIn(i, g, "early")) <= 1
            /\ assignedTo(g, "early")
                 <= Cardinality({i \in 1..Len(TeamColorValues) :
                                    slotConfigOf(i, g).earlyIndex # <<>>})

\* C25: for every gender, every anchor and every totalPlayers >= 0,
\* getHelperSlotConfig returns null for both indices of NonBinary; a non-null
\* index is below totalPlayers; earlyIndex is 0 or null; lateIndex is
\* min(2, totalPlayers - 1) or null and never equals earlyIndex; for the
\* anchor's gender earlyIndex is null and lateIndex is never 0
SlotConfigWellFormed ==
    \A game1Anchor \in {findGame1Anchor(appTeams)} :
        \A gender \in Gender :
            \A totalPlayers \in 0..MaxTotalPlayers :
                \A cfg \in {getHelperSlotConfig(game1Anchor, gender, totalPlayers)} :
                    /\ gender = "NB" => (cfg.earlyIndex = <<>> /\ cfg.lateIndex = <<>>)
                    /\ cfg.earlyIndex # <<>> => cfg.earlyIndex[1] < totalPlayers
                    /\ cfg.lateIndex # <<>> => cfg.lateIndex[1] < totalPlayers
                    /\ cfg.earlyIndex \in {<<>>, <<0>>}
                    /\ cfg.lateIndex \in {<<>>, <<Min2(2, totalPlayers - 1)>>}
                    /\ cfg.lateIndex # <<>> => cfg.lateIndex # cfg.earlyIndex
                    /\ isStartGender(game1Anchor, gender) =>
                          (cfg.earlyIndex = <<>> /\ cfg.lateIndex # <<0>>)

\* generateMatchups has run on teams with an anchor whose team has two
\* gender-specific players of the anchor's gender: that team has no early
\* slot and its late slot is clamped to index 1; a team with one such player
\* has no slot
SlotConfigWellFormedWitness ==
    /\ Generated
    /\ flexibleColors # {}
    /\ firstFlexible.gender \in {"M", "F"}
    /\ \E i \in 1..Len(TeamColorValues) :
          /\ Len(genderSpecificOf(i, firstFlexible.gender)) = 2
          /\ slotConfigOf(i, firstFlexible.gender) = [earlyIndex |-> <<>>, lateIndex |-> <<1>>]
    /\ \E i \in 1..Len(TeamColorValues) :
          /\ Len(genderSpecificOf(i, firstFlexible.gender)) = 1
          /\ slotConfigOf(i, firstFlexible.gender) = [earlyIndex |-> <<>>, lateIndex |-> <<>>]

\* the final ordered list of a gender of the team of color TeamColorValues[i]
orderedOf(i, gender) == genderArray(poolsByColor[TeamColorValues[i]], toRowGenderKey(gender))

\* the player with this id sits at this 0-based index of the list
sitsAt(list, index, id) == index < Len(list) /\ list[index + 1].id = id

\* C26: in the final ordered list of each team for Male and for Female, an
\* 'early' helper sits at index 0, a 'late' helper at index min(2, n - 1)
\* where n is the number of the team's gender-specific players of that
\* gender (anchor included), the Round-1 pick sits at index 0, and the list
\* holds each gender-specific player of that team and gender exactly once
BucketHelpersSitAtTheirIndex ==
    Generated =>
        \A i \in 1..Len(TeamColorValues) :
            \A g \in {"M", "F"} :
                \A list \in {orderedOf(i, g)} :
                    /\ \A h \in helpersOf(i, g) :
                          /\ bucketOf(h.id) = "early" => sitsAt(list, 0, h.id)
                          /\ bucketOf(h.id) = "late"
                                => sitsAt(list, Min2(2, Len(genderSpecificOf(i, g)) - 1), h.id)
                          /\ (isStartGender(findGame1Anchor(appTeams), g)
                                /\ <<h.id>> = game1HelperIdOfTeams) => sitsAt(list, 0, h.id)
                    /\ Len(list) = Len(genderSpecificOf(i, g))
                    /\ Ids(list) = Ids(genderSpecificOf(i, g))

(***************************************************************************)
(* Claims about where generateMatchups puts each player.                   *)
(***************************************************************************)
\* the players of a round, as the set of <<color index, player>>
playersOf(round) ==
    {<<i, slotOf(round, i)[1]>> : i \in {j \in DOMAIN round.players : slotOf(round, j) # <<>>}}

\* a player that generateMatchups keeps in the gender lists: not flexible, or the anchor
genderSpecific(p) == ~p.noGenderRestriction \/ isAnchor(findGame1Anchor(appTeams), p)

\* the gender-specific players of a round; a male, female or non-binary row
\* that is emitted has one, a leftover-flexible row has none
specificOf(round) == {e \in playersOf(round) : genderSpecific(e[2])}

\* the gender of a round that has a gender-specific player
rowGenderOf(round) == (CHOOSE e \in specificOf(round) : TRUE)[2].gender

\* the number of rows of this gender among the rounds 1..r
rowsUpTo(r, gender) ==
    Cardinality({q \in 1..r : specificOf(matchups[q]) # {}
                                /\ rowGenderOf(matchups[q]) = gender})

\* C27: a flexible player that is not the anchor is in a male, female or
\* non-binary row only if its gender is the row's gender and its team has no
\* gender-specific player left for that row; every round before the
\* leftover-flexible rows holds players of one gender, and the
\* leftover-flexible rows, the only ones that can mix genders, come last
FlexibleFillsOwnGenderOnly ==
    Generated =>
        \A r \in DOMAIN matchups :
            specificOf(matchups[r]) # {} =>
                \A g \in {rowGenderOf(matchups[r])} :
                    /\ \A e \in playersOf(matchups[r]) :
                          /\ e[2].gender = g
                          /\ ~genderSpecific(e[2]) =>
                                Len(orderedOf(e[1], g)) < rowsUpTo(r, g)
                    /\ \A q \in 1..r : specificOf(matchups[q]) # {}

\* Blue's flexible male fills Blue's slot of the anchor's male row, Red's
\* flexible female plays a leftover row after it
FlexibleFillsOwnGenderOnlyWitness ==
    /\ Generated
    /\ Len(matchups) = 2
    /\ specificOf(matchups[1]) # {}
    /\ \E e \in playersOf(matchups[1]) :
          e[1] = 2 /\ ~genderSpecific(e[2]) /\ e[2].gender = rowGenderOf(matchups[1])
    /\ specificOf(matchups[2]) = {}
    /\ \E e \in playersOf(matchups[2]) : e[2].gender # rowGenderOf(matchups[1])

\* the slots that hold the player with this id, as <<round, color index>>
slotsOf(id) ==
    {<<r, i>> \in (DOMAIN matchups) \X (1..Len(TeamColorValues)) :
        slotOf(matchups[r], i) # <<>> /\ slotOf(matchups[r], i)[1].id = id}

\* C28: with unique player ids and each player in one team, every member of
\* every team is in exactly one slot of the rounds returned by
\* generateMatchups, a slot of its own team's color, as the player it is in
\* its team; no slot holds anyone else
EveryMemberPlaysOnce ==
    Generated =>
        /\ \A i \in 1..Len(TeamColorValues) :
              \A m \in SeqToSet(teamMembers(appTeams, TeamColorValues[i])) :
                  \A slots \in {slotsOf(m.id)} :
                      /\ Cardinality(slots) = 1
                      /\ \A s \in slots : s[2] = i /\ slotOf(matchups[s[1]], i) = <<m>>
        /\ \A r \in DOMAIN matchups :
              \A e \in playersOf(matchups[r]) : e[2] \in SeqToSet(allMembers(appTeams))

\* the anchor and a helper of Red and a flexible player of Blue that is not
\* the anchor each play one round
EveryMemberPlaysOnceWitness ==
    /\ Generated
    /\ flexibleColors # {}
    /\ \E m \in SeqToSet(teamMembers(appTeams, "Red")) : m.isHelper /\ ~m.noGenderRestriction
    /\ \E m \in SeqToSet(teamMembers(appTeams, "Blue")) :
          /\ m.noGenderRestriction
          /\ m # firstFlexible
          /\ Cardinality(slotsOf(m.id)) = 1
    /\ Cardinality(UNION {playersOf(matchups[r]) : r \in DOMAIN matchups}) = 3

(***************************************************************************)
(* Claim about the draft effect being run again during a draft.            *)
(***************************************************************************)
\* no player id occurs twice in the list
noDuplicate(list) ==
    \A i \in DOMAIN list : \A j \in DOMAIN list : list[i].id = list[j].id => i = j

\* C29: when the draft effect is cancelled and started again while winners
\* are being locked, lockedPlayers still holds every drafted player at most
\* once, it is a permutation of draftQueue when SUMMARY is reached, and
\* confirmTeam never stores a team with a duplicated member
DraftRestartLocksOnce ==
    /\ phase \in {"DRAFTING", "SUMMARY"} => noDuplicate(lockedPlayers)
    /\ phase = "SUMMARY" =>
          (Len(lockedPlayers) = Len(draftQueue) /\ Ids(lockedPlayers) = Ids(draftQueue))
    /\ \A c \in TeamColor : noDuplicate(teams[c])

(***************************************************************************)
(* Match-order edit mode of ResultsPhase.  A cell is a round index from 0  *)
(* and a color; the draft is edited and stored only by handleSaveMatchOrder. *)
(***************************************************************************)
renumberMatchups(list) == [index \in DOMAIN list |-> [list[index] EXCEPT !.id = index]]

\* match.players.find(p => p.color === color)
findEntry(match, color) == first(SelectSeq(match.players, LAMBDA p : p.color = color))

\* the members of the source team in updateTeamMemberships
sourceMembers(members, sourcePlayer, targetPlayer) ==
    LET filtered == SelectSeq(members, LAMBDA member : member.id # sourcePlayer.id)
    IN  IF targetPlayer # <<>>
           /\ ~\E k \in DOMAIN filtered : filtered[k].id = targetPlayer[1].id
        THEN Append(filtered, targetPlayer[1])
        ELSE filtered

\* the members of the target team in updateTeamMemberships
targetMembers(members, sourcePlayer, targetPlayer) ==
    LET filtered == IF targetPlayer # <<>>
                    THEN SelectSeq(members, LAMBDA member : member.id # targetPlayer[1].id)
                    ELSE members
    IN  IF ~\E k \in DOMAIN filtered : filtered[k].id = sourcePlayer.id
        THEN Append(filtered, sourcePlayer)
        ELSE filtered

\* updateTeamMemberships that leaves the source player in the source team
updateTeamMembershipsCopy(currentTeams, sourcePlayer, sourceColor, targetPlayer, targetColor) ==
    IF sourceColor = targetColor THEN currentTeams
    ELSE [i \in DOMAIN currentTeams |->
            IF currentTeams[i].color = targetColor
            THEN [currentTeams[i] EXCEPT
                    !.members = targetMembers(currentTeams[i].members, sourcePlayer,
                                              targetPlayer)]
            ELSE currentTeams[i]]

updateTeamMemberships(currentTeams, sourcePlayer, sourceColor, targetPlayer, targetColor) ==
    IF sourceColor = targetColor THEN currentTeams
    ELSE [i \in DOMAIN currentTeams |->
            IF currentTeams[i].color = sourceColor
            THEN [currentTeams[i] EXCEPT
                    !.members = sourceMembers(currentTeams[i].members, sourcePlayer,
                                              targetPlayer)]
            ELSE IF currentTeams[i].color = targetColor
            THEN [currentTeams[i] EXCEPT
                    !.members = targetMembers(currentTeams[i].members, sourcePlayer,
                                              targetPlayer)]
            ELSE currentTeams[i]]

\* matchup.players.map(...) of the three branches of prev.map
updatedPlayers(entries, idx, source, target, sourcePlayer, targetPlayer) ==
    [e \in DOMAIN entries |->
        IF idx = source.matchIndex /\ idx = target.matchIndex
        THEN (IF entries[e].color = source.color
              THEN [entries[e] EXCEPT !.player = targetPlayer]
              ELSE IF entries[e].color = target.color
              THEN [entries[e] EXCEPT !.player = <<sourcePlayer>>]
              ELSE entries[e])
        ELSE IF idx = source.matchIndex
        THEN (IF entries[e].color = source.color
              THEN [entries[e] EXCEPT !.player = targetPlayer]
              ELSE entries[e])
        ELSE IF idx = target.matchIndex
        THEN (IF entries[e].color = target.color
              THEN [entries[e] EXCEPT !.player = <<sourcePlayer>>]
              ELSE entries[e])
        ELSE entries[e]]

\* updatedMatchups
updatedMatchups(prev, source, target, sourcePlayer, targetPlayer) ==
    [i \in DOMAIN prev |->
        [prev[i] EXCEPT !.players = updatedPlayers(prev[i].players, i - 1, source, target,
                                                   sourcePlayer, targetPlayer)]]

\* the draft matchups and draft teams after transferPlayers(source, target)
transferPlayersOf(prev, prevTeams, source, target) ==
    IF source.matchIndex + 1 \notin DOMAIN prev \/ target.matchIndex + 1 \notin DOMAIN prev
    THEN [matchups |-> prev, teams |-> prevTeams]
    ELSE LET sourceEntry == findEntry(prev[source.matchIndex + 1], source.color)
             targetEntry == findEntry(prev[target.matchIndex + 1], target.color)
         IN  IF sourceEntry = <<>> \/ sourceEntry[1].player = <<>>
             THEN [matchups |-> prev, teams |-> prevTeams]
             ELSE IF source.matchIndex = target.matchIndex /\ source.color = target.color
             THEN [matchups |-> prev, teams |-> prevTeams]
             ELSE LET sourcePlayer == sourceEntry[1].player[1]
                      targetPlayer == IF targetEntry = <<>> THEN <<>>
                                      ELSE targetEntry[1].player
                  IN  [matchups |-> updatedMatchups(prev, source, target, sourcePlayer,
                                                    targetPlayer),
                       teams |-> IF source.color # target.color
                                 THEN updateTeamMemberships(prevTeams, sourcePlayer,
                                                            source.color, targetPlayer,
                                                            target.color)
                                 ELSE prevTeams]

\* the cells of the table that are dragged from and dropped on
EditCells(list) ==
    {[matchIndex |-> r - 1, color |-> TeamColorValues[c]] :
        r \in DOMAIN list, c \in 1..MaxEditColors}

\* EDIT
startMatchOrderEdit ==
    /\ appState = "RESULTS"
    /\ ~isEditingMatchOrder
    /\ draftMatchups' = matchups
    /\ draftTeams' = cloneTeams(appTeams)
    /\ isEditingMatchOrder' = TRUE
    /\ UNCHANGED <<appState, appTeams, matchups, helperBucketAssignments, poolsByColor,
                   scoreCall, raffleVars, tgt, allocVars>>

\* CANCEL
cancelMatchOrderEdit ==
    /\ appState = "RESULTS"
    /\ isEditingMatchOrder
    /\ draftMatchups' = matchups
    /\ draftTeams' = cloneTeams(appTeams)
    /\ isEditingMatchOrder' = FALSE
    /\ UNCHANGED <<appState, appTeams, matchups, helperBucketAssignments, poolsByColor,
                   scoreCall, raffleVars, tgt, allocVars>>

\* SAVE: onUpdateMatchups is setMatchups and onUpdateTeams is setTeams; the
\* effect then copies the stored values into the drafts
handleSaveMatchOrder ==
    /\ appState = "RESULTS"
    /\ isEditingMatchOrder
    /\ \E normalized \in {renumberMatchups(draftMatchups)},
          saved \in {cloneTeams(draftTeams)} :
            /\ matchups' = normalized
            /\ appTeams' = saved
            /\ draftMatchups' = normalized
            /\ draftTeams' = cloneTeams(saved)
    /\ isEditingMatchOrder' = FALSE
    /\ UNCHANGED <<appState, helperBucketAssignments, poolsByColor, scoreCall, raffleVars,
                   tgt, allocVars>>

\* the arrows of a round; the up arrow of the first round and the down arrow
\* of the last one are disabled
moveMatchupRow ==
    /\ appState = "RESULTS"
    /\ isEditingMatchOrder
    /\ \E index \in 0..(Len(draftMatchups) - 1), direction \in {"up", "down"} :
        \E target \in {IF direction = "up" THEN index - 1 ELSE index + 1} :
            /\ ~(target < 0 \/ target >= Len(draftMatchups))
            /\ draftMatchups' = [draftMatchups EXCEPT ![index + 1] = draftMatchups[target + 1],
                                                      ![target + 1] = draftMatchups[index + 1]]
    /\ UNCHANGED <<isEditingMatchOrder, draftTeams, appState, appTeams, matchups,
                   helperBucketAssignments, poolsByColor, scoreCall, raffleVars, tgt,
                   allocVars>>

\* a drop: handleDrop calls transferPlayers with the cell the drag started
\* from, which holds a player, and the cell dropped on, unless they are the
\* same cell
transferPlayers ==
    /\ appState = "RESULTS"
    /\ isEditingMatchOrder
    /\ \E source \in EditCells(draftMatchups), target \in EditCells(draftMatchups) :
        /\ findEntry(draftMatchups[source.matchIndex + 1], source.color)[1].player # <<>>
        /\ source # target
        /\ \E result \in {transferPlayersOf(draftMatchups, draftTeams, source, target)} :
            /\ draftMatchups' = result.matchups
            /\ draftTeams' = result.teams
    /\ UNCHANGED <<isEditingMatchOrder, appState, appTeams, matchups,
                   helperBucketAssignments, poolsByColor, scoreCall, raffleVars, tgt,
                   allocVars>>

(***************************************************************************)
(* Specification of the match-order edit mode: the scoreboard screen with  *)
(* stored teams and matchups, generated or loaded from a results file, in  *)
(* which every player is in one team and every cell in use holds a member  *)
(* of the team of its color.                                               *)
(***************************************************************************)
\* the stored teams: player i is a member of the team of color
\* TeamColorValues[colors[i]], and the team of color number c has score c - 1
EditTeams(n, colors) ==
    [c \in 1..Len(TeamColorValues) |->
        Team(TeamColorValues[c],
             SelectSeq([i \in 1..n |-> Player(i, "M", FALSE, FALSE, NameP)],
                       LAMBDA p : colors[p.id] = c),
             c - 1)]

\* the stored matchups: cells[r][c] is the id of the player in the cell of
\* round r and color number c, 0 for an empty cell
EditMatchups(n, rounds, cells) ==
    [r \in 1..rounds |->
        [id |-> r,
         players |-> [c \in 1..Len(TeamColorValues) |->
                        [color |-> TeamColorValues[c],
                         player |-> IF c <= MaxEditColors /\ cells[r][c] # 0
                                    THEN <<Player(cells[r][c], "M", FALSE, FALSE, NameP)>>
                                    ELSE <<>>]]]]

EditInputs ==
    \E n \in 0..MaxEditPlayers, rounds \in 0..MaxEditRounds :
        \E colors \in {f \in [1..n -> 1..MaxEditColors] :
                        \A i \in 1..n : \A j \in 1..n : i <= j => f[i] <= f[j]} :
            \E cells \in [1..rounds -> [1..MaxEditColors -> 0..n]] :
                /\ \A r \in 1..rounds : \A c \in 1..MaxEditColors :
                      cells[r][c] # 0 => colors[cells[r][c]] = c
                /\ appTeams = EditTeams(n, colors)
                /\ matchups = EditMatchups(n, rounds, cells)

InitEdit ==
    /\ LotteryMounted(<<>>)
    /\ tgt = <<>>
    /\ appState = "RESULTS"
    /\ EditInputs
    /\ helperBucketAssignments = <<>>
    /\ poolsByColor = <<>>
    /\ scoreCall = <<>>
    /\ RaffleClosed
    /\ ResultsPhaseShown

NextEdit ==
    \/ startMatchOrderEdit
    \/ transferPlayers
    \/ moveMatchupRow
    \/ cancelMatchOrderEdit
    \/ handleSaveMatchOrder

SpecEdit == InitEdit /\ [][NextEdit]_vars

\* how many members of the teams have this id
membershipsIn(ts, id) ==
    Cardinality({<<i, k>> \in (DOMAIN ts) \X (1..MaxEditPlayers) :
                    k \in DOMAIN ts[i].members /\ ts[i].members[k].id = id})

\* how many cells of the rounds hold the player with this id
cellsHolding(list, id) ==
    Cardinality({<<r, e>> \in (DOMAIN list) \X (1..Len(TeamColorValues)) :
                    list[r].players[e].player # <<>>
                    /\ list[r].players[e].player[1].id = id})

\* every player is in exactly one of the teams, and the player of every
\* cell in use is a member of the team of the cell's color
membersMatchCells(ts, list) ==
    /\ \A id \in Ids(allMembers(appTeams)) : membershipsIn(ts, id) = 1
    /\ \A r \in DOMAIN list : \A e \in DOMAIN list[r].players :
          list[r].players[e].player # <<>> =>
              \E i \in DOMAIN ts :
                  /\ ts[i].color = list[r].players[e].color
                  /\ list[r].players[e].player[1].id \in Ids(ts[i].members)

\* no player is in two cells
oneCellEach(list) == \A id \in Ids(allMembers(appTeams)) : cellsHolding(list, id) <= 1

\* the teams have the colors and the scores of the stored teams
scoresKept(ts) ==
    /\ DOMAIN ts = DOMAIN appTeams
    /\ \A i \in DOMAIN ts : ts[i].color = appTeams[i].color /\ ts[i].score = appTeams[i].score

\* C30 as stated: in edit mode, from draft teams and draft matchups where
\* every player is in exactly one team and every non-null cell holds a
\* member of the team of its color, a transferPlayers call leaves every
\* player in exactly one draft team and every non-null cell's player a member
\* of the draft team of its color, leaves the team scores unchanged and
\* leaves the stored teams and matchups alone; leaving edit mode stores the
\* draft (handleSaveMatchOrder) or nothing (cancelMatchOrderEdit)
TransferKeepsMembersAndCells ==
    [][/\ (isEditingMatchOrder /\ isEditingMatchOrder'
           /\ membersMatchCells(draftTeams, draftMatchups)) =>
              /\ membersMatchCells(draftTeams', draftMatchups')
              /\ scoresKept(draftTeams')
              /\ appTeams' = appTeams
              /\ matchups' = matchups
       /\ (isEditingMatchOrder /\ ~isEditingMatchOrder') =>
              \/ appTeams' = appTeams /\ matchups' = matchups
              \/ appTeams' = draftTeams /\ matchups' = renumberMatchups(draftMatchups)]_vars

\* C30 with the missing premise: the same, from draft matchups in which no
\* player holds two cells
TransferKeepsMembersAndCellsOnce ==
    [][/\ (isEditingMatchOrder /\ isEditingMatchOrder'
           /\ membersMatchCells(draftTeams, draftMatchups)
           /\ oneCellEach(draftMatchups)) =>
              /\ membersMatchCells(draftTeams', draftMatchups')
              /\ oneCellEach(draftMatchups')
              /\ scoresKept(draftTeams')
              /\ appTeams' = appTeams
              /\ matchups' = matchups
       /\ (isEditingMatchOrder /\ ~isEditingMatchOrder') =>
              \/ appTeams' = appTeams /\ matchups' = matchups
              \/ appTeams' = draftTeams /\ matchups' = renumberMatchups(draftMatchups)]_vars

\* in edit mode two players of different teams, each in one cell, have
\* changed teams: each is a member of the other one's stored team only, and
\* the stored teams still have them where they were
TransferKeepsMembersAndCellsOnceWitness ==
    /\ isEditingMatchOrder
    /\ oneCellEach(draftMatchups)
    /\ membersMatchCells(draftTeams, draftMatchups)
    /\ \E i \in DOMAIN appTeams : \E j \in DOMAIN appTeams :
          /\ i # j
          /\ \E p \in SeqToSet(appTeams[i].members) : \E q \in SeqToSet(appTeams[j].members) :
                /\ cellsHolding(draftMatchups, p.id) = 1
                /\ cellsHolding(draftMatchups, q.id) = 1
                /\ p.id \in Ids(draftTeams[j].members)
                /\ q.id \in Ids(draftTeams[i].members)

====
